---- MODULE Spec2Model ----
(***************************************************************************)
(* Model of the per-product pipeline of lenskart-visual-analysis:          *)
(* ProductProcessor.process_product (src/src/pipeline/processor.py), the   *)
(* response parser (src/src/vision/response_parser.py) and the aggregator  *)
(* (src/src/aggregation/aggregator.py).                                    *)
(*                                                                         *)
(* Units.  Time is in whole seconds, durations reported in milliseconds    *)
(* are seconds * 1000.  Scores are in tenths (2.0 is 20, the range         *)
(* [-5,5] is -50..50), confidences in hundredths (0.5 is 50), coverage     *)
(* percentages in whole percent.  Arithmetic is exact (rationals); the     *)
(* rounding of IEEE doubles is modelled only where the confidence filter   *)
(* and aggregate_confidence are computed on their own (ConfidenceSpec).    *)
(*                                                                         *)
(* An optional value (Python None or a value) is a sequence of length      *)
(* at most one: <<>> is None, <<v>> is v.                                  *)
(***************************************************************************)
EXTENDS Integers, Sequences, FiniteSets, TLC

\* ------------------------------------------------------------------------
\* Bounds of the model
\* ------------------------------------------------------------------------
\* products processed one after another on the processor instance
MaxProducts == 2
\* longest image_urls list of the first product of a run
MaxUrls == 4
\* longest image_urls list of the later products of a run
MaxUrlsLater == 1
\* the idle gap before a call, and the latency of the awaits of a call, are
\* 0..MaxLatencySteps steps of LatencyStep seconds
MaxLatencySteps == 1
LatencyStep == 5
\* the longest list of analyses Aggregator.aggregate is applied to on its own
MaxAnalyses == 3
\* how often a function applied on its own is applied to the same argument
MaxApplications == 2
\* how many fields of a decoded response are missing, wrongly typed or out of range at once
MaxIrregular == 2
\* the longest flat colour list _deduplicate_colors is applied to
MaxColors == 4
\* the requests that call process_product on the one processor instance at the same time
MaxTasks == 2
\* the most responses of one product the confidence filter is applied to on its own
MaxRated == 2

\* ------------------------------------------------------------------------
\* Program constants
\* ------------------------------------------------------------------------
\* settings.API_CALL_DELAY_SECONDS (seconds)
API_CALL_DELAY_SECONDS == 15
\* settings.MAX_IMAGES_PER_PRODUCT
MAX_IMAGES_PER_PRODUCT == 3
\* settings.MIN_CONFIDENCE_THRESHOLD (0.5, in hundredths)
MIN_CONFIDENCE_THRESHOLD == 50
\* the literal 0.5 of the low_confidence test (hundredths)
LOW_CONFIDENCE_LIMIT == 50
\* the literal 2.0 of the high_variance test (tenths)
HIGH_VARIANCE_RANGE == 20
\* the default of _parse_retry_delay (seconds)
DEFAULT_RETRY_SECONDS == 60
\* settings.GEMINI_API_TIMEOUT (seconds)
GEMINI_API_TIMEOUT == 30

None == <<>>
Some(v) == <<v>>

Max(a, b) == IF a >= b THEN a ELSE b
Min(a, b) == IF a <= b THEN a ELSE b

RECURSIVE SumSeq(_)
SumSeq(s) == IF s = <<>> THEN 0 ELSE Head(s) + SumSeq(Tail(s))

RECURSIVE MaxSeq(_)
MaxSeq(s) == IF Len(s) = 1 THEN s[1] ELSE Max(Head(s), MaxSeq(Tail(s)))

RECURSIVE MinSeq(_)
MinSeq(s) == IF Len(s) = 1 THEN s[1] ELSE Min(Head(s), MinSeq(Tail(s)))

RECURSIVE FlatSeq(_)
FlatSeq(ss) == IF ss = <<>> THEN <<>> ELSE Head(ss) \o FlatSeq(Tail(ss))

Prefix(s, n) == SubSeq(s, 1, Min(n, Len(s)))

\* ------------------------------------------------------------------------
\* Exact fractions num/den, den > 0, in lowest terms
\* ------------------------------------------------------------------------
Abs(x) == IF x < 0 THEN -x ELSE x

RECURSIVE Gcd(_, _)
Gcd(a, b) == IF b = 0 THEN a ELSE Gcd(b, a % b)

Frac(n, d) ==
    LET g == Gcd(Abs(n), d)
    IN  IF n = 0 THEN [num |-> 0, den |-> 1] ELSE [num |-> n \div g, den |-> d \div g]

FracLess(a, b) == a.num * b.den < b.num * a.den

\* ------------------------------------------------------------------------
\* Exception messages.  A message is a sequence of text pieces; a piece is
\* one of the words the classifiers look for, in some letter case, or text
\* that contains none of them.
\* ------------------------------------------------------------------------
\* str.lower() of one piece
LowerPiece(p) ==
    CASE p = "RATE" -> "rate"
      [] p = "Rate" -> "rate"
      [] p = "QUOTA" -> "quota"
      [] p = "Limit" -> "limit"
      [] p = "Retry In " -> "retry in "
      [] OTHER -> p

\* str.lower() of a message
Lower(msg) == [k \in 1..Len(msg) |-> LowerPiece(msg[k])]

\* the Python test  word in msg
Contains(msg, word) == \E k \in 1..Len(msg) : msg[k] = word

\* the value of the leading digits of a piece, None when it does not start with a digit
LeadingDigits(p) ==
    CASE p = "37.395680969s" -> Some(37)
      [] p = "7s" -> Some(7)
      [] p = "429" -> Some(429)
      [] OTHER -> None

\* the messages the external collaborators raise in this model
ErrorMessages ==
    { <<"connection reset">>,
      <<"429">>,
      <<"Rate">>,
      <<"Limit">>,
      <<"QUOTA", "retry in ", "37.395680969s">>,
      <<"429", "Retry In ", "7s">>,
      <<"rate", "retry in ", "a moment">> }

\* the ValueError of int(x, 16) inside Aggregator._deduplicate_colors
HexValueError == <<"invalid literal for int() with base 16">>

\* the TimeoutError GeminiVisionClient.analyze_image raises when wait_for cuts the call off
TimeoutMessage == <<"Gemini Vision API call exceeded timeout of ", "30s">>

\* ProductProcessor._parse_retry_delay: re.search(r"retry in (\d+)", IGNORECASE)
_parse_retry_delay(error_message) ==
    LET hits == { k \in 1..(Len(error_message) - 1) :
                    /\ LowerPiece(error_message[k]) = "retry in "
                    /\ LeadingDigits(error_message[k + 1]) # None }
    IN  IF hits # {}
        THEN LeadingDigits(error_message[(CHOOSE k \in hits : \A j \in hits : k <= j) + 1])[1]
        ELSE DEFAULT_RETRY_SECONDS

\* the test of the except branch of _analyze_images_with_tracking
VisionErrorIsRateLimit(e) ==
    LET error_msg == Lower(e)
    IN  Contains(error_msg, "rate") \/ Contains(error_msg, "quota") \/ Contains(error_msg, "limit")

\* the test of the except branch of process_product
UnhandledIsRateLimit(e) ==
    LET error_str == Lower(e)
    IN  Contains(error_str, "429") \/ Contains(error_str, "quota") \/ Contains(error_str, "rate")

\* ------------------------------------------------------------------------
\* Raw responses of the vision model and the decoded JSON
\* ------------------------------------------------------------------------
DimNames == <<"gender_expression", "visual_weight", "embellishment", "unconventionality", "formality">>
DimSet == { DimNames[k] : k \in 1..Len(DimNames) }

\* a JSON member read with float(): absent, a number, or a value float() rejects
AbsentJ == [t |-> "absent", v |-> 0]
NumJ(v) == [t |-> "num", v |-> v]
BadJ == [t |-> "bad", v |-> 0]

\* the JSON value of one dimension key: absent, an object, or not an object
DimAbsentJ == [t |-> "absent", score |-> AbsentJ, confidence |-> AbsentJ]
DimObjJ(s, c) == [t |-> "obj", score |-> s, confidence |-> c]
DimOtherJ == [t |-> "other", score |-> AbsentJ, confidence |-> AbsentJ]

\* a text is a sequence of one-character strings
Hex808080 == <<"#", "8", "0", "8", "0", "8", "0">>
HexFF0000 == <<"#", "F", "F", "0", "0", "0", "0">>
HexNA == <<"N", "/", "A">>

\* one entry of the dominant_colors list: an object or something else
ColorObjJ(name, hex, cov) ==
    [t |-> "obj", color |-> name, hex_approximation |-> hex, coverage_percentage |-> cov]
ColorOtherJ ==
    [t |-> "other", color |-> None, hex_approximation |-> None, coverage_percentage |-> AbsentJ]

\* the JSON value of the dominant_colors key
ColorsAbsentJ == [t |-> "absent", items |-> <<>>]
ColorsListJ(items) == [t |-> "list", items |-> items]
ColorsOtherJ == [t |-> "other", items |-> <<>>]

\* the boolean and the categorical keys of ObservableAttributes and VisualMetadata
BoolAttrs == { "wirecore_visible", "suitable_for_kids", "has_nose_pads" }
EnumAttrs ==
    { "frame_geometry", "transparency", "surface_texture",
      "frame_material_apparent", "lens_tint", "temple_style" }
ObservableAttrs ==
    { "wirecore_visible", "frame_geometry", "transparency", "surface_texture", "suitable_for_kids" }
MetadataAttrs == { "frame_material_apparent", "lens_tint", "has_nose_pads", "temple_style" }
AttrSet == BoolAttrs \cup EnumAttrs

\* the JSON value of a boolean or categorical key: absent, null, a boolean, a string, or
\* an object whose "value" member is of kind w (absent, null, a boolean or a string)
AbsentV == [t |-> "absent", w |-> "", s |-> "", b |-> FALSE]
NullV == [t |-> "null", w |-> "", s |-> "", b |-> FALSE]
BoolV(b) == [t |-> "bool", w |-> "", s |-> "", b |-> b]
StrV(s) == [t |-> "str", w |-> "", s |-> s, b |-> FALSE]
DictV(inner) == [t |-> "dict", w |-> inner.t, s |-> inner.s, b |-> inner.b]

JsonObject(ge, vw, em, un, fo, colors) ==
    [dims |-> [d \in DimSet |->
                 CASE d = "gender_expression" -> ge
                   [] d = "visual_weight" -> vw
                   [] d = "embellishment" -> em
                   [] d = "unconventionality" -> un
                   [] d = "formality" -> fo],
     dominant_colors |-> colors,
     attrs |-> [a \in AttrSet |-> AbsentV]]

EmptyObject == JsonObject(DimAbsentJ, DimAbsentJ, DimAbsentJ, DimAbsentJ, DimAbsentJ, ColorsAbsentJ)

\* a raw text: prose without any JSON object, or a text whose JSON object decodes to data
ProseText == [kind |-> "prose", data |-> EmptyObject]
JsonText(data) == [kind |-> "json", data |-> data]
\* a text with braces whose JSON does not decode; data tells what the text holds after
\* each dimension key: nothing, a {...} block, or something that is no block
BrokenText(data) == [kind |-> "broken", data |-> data]

Dim(s, c) == DimObjJ(NumJ(s), NumJ(c))
OneColor(name, hex, cov) == ColorsListJ(<<ColorObjJ(Some(name), Some(hex), NumJ(cov))>>)

\* scores spread over the dimensions (-2.0 .. 2.0), confidence 0.9
RespA == JsonText(JsonObject(Dim(-20, 90), Dim(0, 90), Dim(0, 90), Dim(0, 90), Dim(20, 90),
                             OneColor("red", HexFF0000, 60)))
\* gender_expression 3.0 away from RespA, confidence 0.8
RespB == JsonText(JsonObject(Dim(10, 80), Dim(0, 80), Dim(0, 80), Dim(0, 80), Dim(20, 80),
                             OneColor("red", HexFF0000, 50)))
\* mean confidence (0.4 + 4 * 0.5) / 5 = 0.48
RespLow == JsonText(JsonObject(Dim(0, 40), DimAbsentJ, DimAbsentJ, DimAbsentJ, DimAbsentJ,
                               ColorsAbsentJ))
\* "{}": every field defaulted, mean confidence exactly 0.5
RespEmpty == JsonText(EmptyObject)
\* a colour whose hex_approximation is not #RRGGBB
RespHex == JsonText(JsonObject(Dim(5, 70), Dim(5, 70), Dim(5, 70), Dim(5, 70), Dim(5, 70),
                               OneColor("red", HexNA, 40)))
\* the raw texts the vision call returns in this model
Responses == { ProseText, RespA, RespB, RespLow, RespEmpty, RespHex }

\* ------------------------------------------------------------------------
\* response_parser.py
\* ------------------------------------------------------------------------
DefaultDimension == [score |-> 0, confidence |-> 50]

\* safe_get_dimension
safe_get_dimension(data, key) ==
    LET dim_data == data.dims[key]
        score == IF dim_data.score.t = "absent" THEN 0 ELSE dim_data.score.v
        confidence == IF dim_data.confidence.t = "absent" THEN 50 ELSE dim_data.confidence.v
    IN  IF dim_data.t = "other" THEN DefaultDimension
        ELSE IF dim_data.score.t = "bad" \/ dim_data.confidence.t = "bad" THEN DefaultDimension
        ELSE [score |-> Max(-50, Min(50, score)), confidence |-> Max(0, Min(100, confidence))]

DefaultColors == <<[color |-> "unknown", hex_approximation |-> Hex808080, coverage_percentage |-> 100]>>

RECURSIVE ColorDicts(_)
ColorDicts(items) ==
    IF items = <<>> THEN <<>>
    ELSE LET color == Head(items)
         IN  (IF color.t = "obj"
              THEN <<[color |-> IF color.color = None THEN "unknown" ELSE color.color[1],
                      hex_approximation |-> IF color.hex_approximation = None THEN Hex808080
                                            ELSE color.hex_approximation[1],
                      coverage_percentage |-> IF color.coverage_percentage.t = "absent" THEN 33
                                              ELSE color.coverage_percentage.v]>>
              ELSE <<>>) \o ColorDicts(Tail(items))

\* safe_get_colors
safe_get_colors(data) ==
    LET colors_raw == data.dominant_colors
        first3 == Prefix(colors_raw.items, 3)
        colors == ColorDicts(first3)
    IN  IF colors_raw.t = "other" THEN DefaultColors
        ELSE IF \E k \in 1..Len(first3) :
                   first3[k].t = "obj" /\ first3[k].coverage_percentage.t = "bad"
             THEN DefaultColors
        ELSE IF colors = <<>> THEN DefaultColors
        ELSE colors

\* DominantColor.validate_coverage accepts the value
validate_coverage(v) == 0 <= v /\ v <= 100

\* VALID_FRAME_GEOMETRY ... VALID_TEMPLE_STYLE, the same values as the enums of the schema
ValidValues(key) ==
    CASE key = "frame_geometry" ->
             { "rectangular", "round", "oval", "aviator", "cat-eye", "geometric", "irregular", "unknown" }
      [] key = "transparency" -> { "opaque", "semi-transparent", "transparent", "mixed" }
      [] key = "surface_texture" ->
             { "smooth", "matte", "glossy", "textured", "patterned", "metallic" }
      [] key = "frame_material_apparent" ->
             { "metal", "plastic", "acetate", "titanium", "wood", "mixed", "indeterminate" }
      [] key = "lens_tint" ->
             { "clear", "tinted", "gradient", "mirrored", "photochromic", "gray", "brown", "green",
               "blue", "indeterminate" }
      [] key = "temple_style" -> { "standard", "spring-hinge", "cable", "skull", "indeterminate" }
      [] OTHER -> {}

\* the default parse_vision_response passes to safe_get_value for each key
DefaultValue(key) ==
    CASE key \in BoolAttrs -> BoolV(FALSE)
      [] key = "frame_geometry" -> StrV("unknown")
      [] key = "transparency" -> StrV("opaque")
      [] key = "surface_texture" -> StrV("smooth")
      [] OTHER -> StrV("indeterminate")

\* Python truth value of a JSON value
Truthy(v) == (v.t = "bool" /\ v.b) \/ (v.t = "str" /\ v.s # "")

\* safe_get_value: the value handed to the schema, a null, a boolean or a string
safe_get_value(data, key, default, valid_values) ==
    LET got == data.attrs[key]
        inner == [t |-> got.w, w |-> "", s |-> got.s, b |-> got.b]
        raw_value == IF got.t = "absent" THEN default
                     ELSE IF got.t = "dict" THEN (IF Truthy(inner) THEN inner ELSE default)
                     ELSE got
    IN  IF valid_values # {} /\ ~(raw_value.t = "str" /\ raw_value.s \in valid_values)
        THEN default
        ELSE raw_value

\* the strings pydantic converts to a boolean
TrueStrings == { "1", "on", "t", "true", "y", "yes" }
FalseStrings == { "0", "off", "f", "false", "n", "no" }

\* validation of a bool field of the schema: None when it raises, else the boolean
BoolField(v) ==
    CASE v.t = "bool" -> Some(v.b)
      [] v.t = "str" /\ v.s \in TrueStrings -> Some(TRUE)
      [] v.t = "str" /\ v.s \in FalseStrings -> Some(FALSE)
      [] OTHER -> None

\* the value parse_vision_response gets from safe_get_value for key
ExtractedValue(data, key) == safe_get_value(data, key, DefaultValue(key), ValidValues(key))

\* the validated fields named in keys, as stored on the parsed analysis
Attributes(data, keys) ==
    [a \in keys |-> IF a \in BoolAttrs THEN BoolField(ExtractedValue(data, a))[1]
                    ELSE ExtractedValue(data, a).s]

\* the text holds "key": {...} for the dimension: the pattern of the test that
\* guards the recovery
DimBlockPresent(j) == j.t = "obj"

\* the text holds "key": {"score": X, "confidence": Y} with X of [-\d.]+ and Y of [\d.]+
DimBlockMatches(j) ==
    j.t = "obj" /\ j.score.t = "num" /\ j.confidence.t = "num" /\ j.confidence.v >= 0

\* _attempt_partial_recovery: the dict built from the dimension blocks that match
_attempt_partial_recovery(raw_text) ==
    [dims |-> [d \in DimSet |->
                 IF DimBlockMatches(raw_text.data.dims[d]) THEN raw_text.data.dims[d]
                 ELSE DimObjJ(NumJ(0), NumJ(50))],
     dominant_colors |-> ColorsListJ(<<ColorObjJ(Some("unknown"), Some(Hex808080), NumJ(100))>>),
     attrs |-> [a \in AttrSet |-> DefaultValue(a)]]

\* the text goes into recovery only when the gender_expression block is found
RecoveryAttempted(raw_text) == DimBlockPresent(raw_text.data.dims["gender_expression"])

\* parse_vision_response: None, or the parsed analysis (dominant_colors, a member of
\* observable_attributes in the source, is kept beside it)
parse_vision_response(raw_text) ==
    LET data == IF raw_text.kind = "broken" THEN _attempt_partial_recovery(raw_text)
                ELSE raw_text.data
        colors == safe_get_colors(data)
    IN  IF raw_text.kind = "prose" THEN None
        ELSE IF raw_text.kind = "broken" /\ ~RecoveryAttempted(raw_text) THEN None
        ELSE IF \E k \in 1..Len(colors) : ~validate_coverage(colors[k].coverage_percentage)
             THEN None
        ELSE IF \E a \in BoolAttrs : BoolField(ExtractedValue(data, a)) = None
             THEN None
        ELSE Some([visual_dimensions |-> [d \in DimSet |-> safe_get_dimension(data, d)],
                   dominant_colors |-> colors,
                   observable_attributes |-> Attributes(data, ObservableAttrs),
                   visual_metadata |-> Attributes(data, MetadataAttrs)])

\* ------------------------------------------------------------------------
\* output_schema.py: ProductMeasurement and its parts
\* ------------------------------------------------------------------------
QualityFlags(low_confidence, high_variance, single_image_only, partial_analysis) ==
    [low_confidence |-> low_confidence, high_variance |-> high_variance,
     single_image_only |-> single_image_only, partial_analysis |-> partial_analysis]

\* TimingBreakdown(**timing): total_ms defaults to 0
TimingBreakdown(timing) ==
    [url_validation_ms |-> timing.url_validation_ms, image_fetch_ms |-> timing.image_fetch_ms,
     gemini_api_ms |-> timing.gemini_api_ms, aggregation_ms |-> timing.aggregation_ms,
     total_ms |-> timing.total_ms]

\* the static guidance attached to a rate-limited measurement
RateLimitGuidance ==
    [limit |-> "20 requests/day (free tier)", reset_time |-> "Daily at midnight UTC"]

\* ZeroDimensions with the confidence of a defaulted dimension
ZeroDimensions_defaulted == [d \in DimSet |-> [score |-> Frac(0, 1), confidence |-> Frac(50, 1)]]

\* the zeroed dimensions of a failed measurement
ZeroDimensions == [d \in DimSet |-> [score |-> Frac(0, 1), confidence |-> Frac(0, 1)]]

\* ProductMeasurement(...) with the defaults of the optional fields
ProductMeasurement(processing_status, visual_dimensions, observable_attributes, visual_metadata, aggregate_confidence, quality_flags) ==
    [processing_status |-> processing_status,
     visual_dimensions |-> visual_dimensions,
     observable_attributes |-> observable_attributes,
     visual_metadata |-> visual_metadata,
     aggregate_confidence |-> aggregate_confidence,
     error_type |-> None,
     retry_after_seconds |-> None,
     rate_limit_info |-> None,
     images_capped |-> FALSE,
     total_images_provided |-> 0,
     images_successfully_analyzed |-> 0,
     processing_time_ms |-> 0,
     per_image_time_ms |-> <<>>,
     quality_flags |-> quality_flags,
     image_validation |-> None,
     per_image_analysis |-> <<>>,
     timing_breakdown |-> None]

\* ------------------------------------------------------------------------
\* aggregator.py
\* ------------------------------------------------------------------------
HexDigits == <<"0", "1", "2", "3", "4", "5", "6", "7", "8", "9", "A", "B", "C", "D", "E", "F">>
HexDigitsLower == <<"0", "1", "2", "3", "4", "5", "6", "7", "8", "9", "a", "b", "c", "d", "e", "f">>

\* the value of one hexadecimal digit, -1 for any other character
HexDigitValue(ch) ==
    LET hits == { k \in 1..Len(HexDigits) : HexDigits[k] = ch \/ HexDigitsLower[k] = ch }
    IN  IF hits = {} THEN -1 ELSE (CHOOSE k \in hits : TRUE) - 1

\* str.lstrip('#')
RECURSIVE LStripHash(_)
LStripHash(str) == IF str # <<>> /\ Head(str) = "#" THEN LStripHash(Tail(str)) ELSE str

\* int(x, 16) of a slice of at most two characters: None when it raises ValueError
Int16(x) ==
    IF x = <<>> \/ \E k \in 1..Len(x) : HexDigitValue(x[k]) = -1 THEN None
    ELSE IF Len(x) = 1 THEN Some(HexDigitValue(x[1]))
    ELSE Some(16 * HexDigitValue(x[1]) + HexDigitValue(x[2]))

\* hex_to_rgb: None when it raises, else the triple
hex_to_rgb(hex_str) ==
    LET h == LStripHash(hex_str)
        slice(a) == SubSeq(h, Min(a, Len(h) + 1), Min(a + 1, Len(h)))
        r == Int16(slice(1))
        g == Int16(slice(3))
        b == Int16(slice(5))
    IN  IF r = None \/ g = None \/ b = None THEN None ELSE Some(<<r[1], g[1], b[1]>>)

\* all_colors of _aggregate_observable_attributes
AllColors(results) == FlatSeq([k \in 1..Len(results) |-> results[k].dominant_colors])

\* average_hex raises inside _deduplicate_colors: some collected colour has no parseable hex
DeduplicateRaises(results) ==
    LET all_colors == AllColors(results)
    IN  \E k \in 1..Len(all_colors) : hex_to_rgb(all_colors[k].hex_approximation) = None

\* str.lower() of a colour name
LowerName(name) == IF name = "Red" THEN "red" ELSE name

\* RgbClose with <= in place of <
RgbClose_le(rgb1, rgb2) ==
    (rgb1[1] - rgb2[1]) * (rgb1[1] - rgb2[1]) + (rgb1[2] - rgb2[2]) * (rgb1[2] - rgb2[2])
        + (rgb1[3] - rgb2[3]) * (rgb1[3] - rgb2[3]) <= 50 * 50

\* rgb_distance(rgb1, rgb2) < 50, on the squares
RgbClose(rgb1, rgb2) ==
    (rgb1[1] - rgb2[1]) * (rgb1[1] - rgb2[1]) + (rgb1[2] - rgb2[2]) * (rgb1[2] - rgb2[2])
        + (rgb1[3] - rgb2[3]) * (rgb1[3] - rgb2[3]) < 50 * 50

\* the test of one group for one colour: same name, or both hex values parse and are close
JoinsGroup(color, group) ==
    \/ LowerName(color.color) = LowerName(group[1].color)
    \/ LET color_rgb == hex_to_rgb(color.hex_approximation)
           group_rgb == hex_to_rgb(group[1].hex_approximation)
       IN  color_rgb # None /\ group_rgb # None /\ RgbClose(color_rgb[1], group_rgb[1])

\* the grouping loop of _deduplicate_colors: color_groups after scanning colors
RECURSIVE GroupColors(_, _)
GroupColors(colors, color_groups) ==
    IF colors = <<>> THEN color_groups
    ELSE LET color == Head(colors)
             hits == { k \in 1..Len(color_groups) : JoinsGroup(color, color_groups[k]) }
         IN  IF hits = {}
             THEN GroupColors(Tail(colors), Append(color_groups, <<color>>))
             ELSE LET k == CHOOSE k \in hits : \A j \in hits : k <= j
                  IN  GroupColors(Tail(colors), [color_groups EXCEPT ![k] = Append(@, color)])

\* f"{v:02X}"
TwoHex(v) == <<HexDigits[(v \div 16) + 1], HexDigits[(v % 16) + 1]>>

\* average_hex of a list of parseable hex values
average_hex(hex_list) ==
    LET rgbs == [k \in 1..Len(hex_list) |-> hex_to_rgb(hex_list[k])[1]]
        avg(c) == SumSeq([k \in 1..Len(rgbs) |-> rgbs[k][c]]) \div Len(rgbs)
    IN  <<"#">> \o TwoHex(avg(1)) \o TwoHex(avg(2)) \o TwoHex(avg(3))

\* one group merged into a single DominantColor
MergeGroup(group) ==
    LET top == CHOOSE k \in 1..Len(group) :
                   /\ \A j \in 1..Len(group) : group[j].coverage_percentage <= group[k].coverage_percentage
                   /\ \A j \in 1..(k - 1) : group[j].coverage_percentage < group[k].coverage_percentage
    IN  [color |-> group[top].color,
         hex_approximation |-> average_hex([k \in 1..Len(group) |-> group[k].hex_approximation]),
         coverage_percentage |->
             Min(100, SumSeq([k \in 1..Len(group) |-> group[k].coverage_percentage]))]

\* list.sort(key = coverage_percentage, reverse = True): stable, highest coverage first
RECURSIVE SortByCoverage(_)
SortByCoverage(colors) ==
    IF colors = <<>> THEN <<>>
    ELSE LET rest == SortByCoverage(SubSeq(colors, 1, Len(colors) - 1))
             last == colors[Len(colors)]
             before == { k \in 1..Len(rest) : rest[k].coverage_percentage >= last.coverage_percentage }
             n == Cardinality(before)
         IN  SubSeq(rest, 1, n) \o <<last>> \o SubSeq(rest, n + 1, Len(rest))

\* _deduplicate_colors keeping the first 3 groups without sorting them
_deduplicate_colors_unsorted(all_colors) ==
    IF all_colors = <<>> THEN <<>>
    ELSE LET color_groups == GroupColors(all_colors, <<>>)
             merged_colors == [k \in 1..Len(color_groups) |-> MergeGroup(color_groups[k])]
         IN  Prefix(merged_colors, 3)

\* Aggregator._deduplicate_colors on a list for which average_hex does not raise
_deduplicate_colors(all_colors) ==
    IF all_colors = <<>> THEN <<>>
    ELSE LET color_groups == GroupColors(all_colors, <<>>)
             merged_colors == [k \in 1..Len(color_groups) |-> MergeGroup(color_groups[k])]
         IN  Prefix(SortByCoverage(merged_colors), 3)

\* votes.items() in insertion order after tallying values
RECURSIVE Tally(_, _)
Tally(values, votes) ==
    IF values = <<>> THEN votes
    ELSE LET value == Head(values)
             hits == { k \in 1..Len(votes) : votes[k].value = value }
         IN  IF hits = {}
             THEN Tally(Tail(values), Append(votes, [value |-> value, count |-> 1]))
             ELSE LET k == CHOOSE k \in hits : TRUE
                  IN  Tally(Tail(values), [votes EXCEPT ![k].count = @ + 1])

\* max(items, key = count) keeping the later of two items of equal count
RECURSIVE MaxItem_last(_)
MaxItem_last(items) ==
    IF Len(items) = 1 THEN items[1]
    ELSE LET rest == MaxItem_last(Tail(items))
         IN  IF rest.count >= Head(items).count THEN rest ELSE Head(items)

\* max(items, key = count): the first item, in list order, of the highest count
RECURSIVE MaxItem(_)
MaxItem(items) ==
    IF Len(items) = 1 THEN items[1]
    ELSE LET rest == MaxItem(Tail(items))
         IN  IF rest.count > Head(items).count THEN rest ELSE Head(items)

\* winner = max(votes.items(), key=lambda x: x[1])[0]
Winner(values) == MaxItem(Tally(values, <<>>)).value

\* Aggregator._aggregate_boolean_field
_aggregate_boolean_field(results, field_name) ==
    IF results = <<>> THEN FALSE
    ELSE Winner([k \in 1..Len(results) |-> results[k].observable_attributes[field_name]])

\* Aggregator._aggregate_enum_field
_aggregate_enum_field(results, field_name) ==
    IF results = <<>>
    THEN CASE field_name = "frame_geometry" -> "unknown"
           [] field_name = "transparency" -> "opaque"
           [] field_name = "surface_texture" -> "smooth"
           [] OTHER -> "unknown"
    ELSE Winner([k \in 1..Len(results) |-> results[k].observable_attributes[field_name]])

\* Aggregator._aggregate_metadata_field
_aggregate_metadata_field(results, field_name, default) ==
    IF results = <<>> THEN default
    ELSE Winner([k \in 1..Len(results) |-> results[k].visual_metadata[field_name]])

\* Aggregator._aggregate_metadata_boolean_field
_aggregate_metadata_boolean_field(results, field_name) ==
    IF results = <<>> THEN FALSE
    ELSE Winner([k \in 1..Len(results) |-> results[k].visual_metadata[field_name]])

\* Aggregator._aggregate_observable_attributes
_aggregate_observable_attributes(results) ==
    [wirecore_visible |-> _aggregate_boolean_field(results, "wirecore_visible"),
     frame_geometry |-> _aggregate_enum_field(results, "frame_geometry"),
     transparency |-> _aggregate_enum_field(results, "transparency"),
     dominant_colors |-> _deduplicate_colors(AllColors(results)),
     surface_texture |-> _aggregate_enum_field(results, "surface_texture"),
     suitable_for_kids |-> _aggregate_boolean_field(results, "suitable_for_kids")]

\* Aggregator._aggregate_visual_metadata
_aggregate_visual_metadata(results) ==
    [frame_material_apparent |-> _aggregate_metadata_field(results, "frame_material_apparent", "indeterminate"),
     lens_tint |-> _aggregate_metadata_field(results, "lens_tint", "indeterminate"),
     has_nose_pads |-> _aggregate_metadata_boolean_field(results, "has_nose_pads"),
     temple_style |-> _aggregate_metadata_field(results, "temple_style", "indeterminate")]

\* _aggregate_visual_dimensions with the plain mean of the scores
_aggregate_visual_dimensions_unweighted(results) ==
    [dim_name \in DimSet |->
        LET scores == [k \in 1..Len(results) |-> results[k].visual_dimensions[dim_name].score]
            confidences == [k \in 1..Len(results) |-> results[k].visual_dimensions[dim_name].confidence]
        IN  [score |-> Frac(SumSeq(scores), Len(results)),
             confidence |-> Frac(SumSeq(confidences), Len(results))]]

\* Aggregator._aggregate_visual_dimensions
_aggregate_visual_dimensions(results) ==
    [dim_name \in DimSet |->
        LET scores == [k \in 1..Len(results) |-> results[k].visual_dimensions[dim_name].score]
            confidences == [k \in 1..Len(results) |-> results[k].visual_dimensions[dim_name].confidence]
            total_confidence == SumSeq(confidences)
            weighted_score == IF total_confidence > 0
                              THEN Frac(SumSeq([k \in 1..Len(results) |-> scores[k] * confidences[k]]),
                                        total_confidence)
                              ELSE Frac(0, 1)
            avg_confidence == Frac(total_confidence, Len(results))
        IN  [score |-> weighted_score, confidence |-> avg_confidence]]

\* statistics.mean of the five fused confidences
MeanConfidence(visual_dimensions) ==
    LET c(k) == visual_dimensions[DimNames[k]].confidence
        den == c(1).den * c(2).den * c(3).den * c(4).den * c(5).den
        num == SumSeq([k \in 1..5 |-> c(k).num * (den \div c(k).den)])
    IN  Frac(num, 5 * den)

\* Aggregator_calculate_quality_flags taking a range of exactly 2.0 for high variance
Aggregator_calculate_quality_flags_ge(results, aggregate_confidence) ==
    LET low_confidence == FracLess(aggregate_confidence, Frac(LOW_CONFIDENCE_LIMIT, 1))
        range(dim_name) ==
            LET scores == [k \in 1..Len(results) |-> results[k].visual_dimensions[dim_name].score]
            IN  MaxSeq(scores) - MinSeq(scores)
        high_variance == Len(results) > 1 /\ \E dim_name \in DimSet : range(dim_name) >= HIGH_VARIANCE_RANGE
    IN  QualityFlags(low_confidence, high_variance, Len(results) = 1, FALSE)

\* Aggregator._calculate_quality_flags
Aggregator_calculate_quality_flags(results, aggregate_confidence) ==
    LET low_confidence == FracLess(aggregate_confidence, Frac(LOW_CONFIDENCE_LIMIT, 1))
        range(dim_name) ==
            LET scores == [k \in 1..Len(results) |-> results[k].visual_dimensions[dim_name].score]
            IN  MaxSeq(scores) - MinSeq(scores)
        high_variance == Len(results) > 1 /\ \E dim_name \in DimSet : range(dim_name) > HIGH_VARIANCE_RANGE
    IN  QualityFlags(low_confidence, high_variance, Len(results) = 1, FALSE)

\* EmptyMeasurement with the status and the flags of a successful aggregation
EmptyMeasurement_success ==
    ProductMeasurement(
        "success",
        [d \in DimSet |-> [score |-> Frac(0, 1), confidence |-> Frac(0, 1)]],
        [wirecore_visible |-> FALSE, frame_geometry |-> "unknown", transparency |-> "opaque",
         dominant_colors |-> <<>>, surface_texture |-> "smooth", suitable_for_kids |-> FALSE],
        [frame_material_apparent |-> "indeterminate", lens_tint |-> "indeterminate",
         has_nose_pads |-> FALSE, temple_style |-> "indeterminate"],
        Frac(0, 1),
        QualityFlags(FALSE, FALSE, FALSE, FALSE))

\* the measurement Aggregator.aggregate returns for an empty list
EmptyMeasurement ==
    ProductMeasurement(
        "failed",
        [d \in DimSet |-> [score |-> Frac(0, 1), confidence |-> Frac(0, 1)]],
        [wirecore_visible |-> FALSE, frame_geometry |-> "unknown", transparency |-> "opaque",
         dominant_colors |-> <<>>, surface_texture |-> "smooth", suitable_for_kids |-> FALSE],
        [frame_material_apparent |-> "indeterminate", lens_tint |-> "indeterminate",
         has_nose_pads |-> FALSE, temple_style |-> "indeterminate"],
        Frac(0, 1),
        QualityFlags(TRUE, FALSE, FALSE, FALSE))

\* Aggregator.aggregate on a list for which _deduplicate_colors does not raise
aggregate(results) ==
    IF results = <<>>
    THEN EmptyMeasurement
    ELSE LET visual_dimensions == _aggregate_visual_dimensions(results)
             aggregate_confidence == MeanConfidence(visual_dimensions)
         IN  ProductMeasurement("success", visual_dimensions,
                                _aggregate_observable_attributes(results),
                                _aggregate_visual_metadata(results),
                                aggregate_confidence,
                                Aggregator_calculate_quality_flags(results, aggregate_confidence))

\* ------------------------------------------------------------------------
\* processor.py: the pure parts of ProductProcessor
\* ------------------------------------------------------------------------
\* the keyword arguments of _create_failed_measurement at their defaults
FailedArgs ==
    [error_type |-> "unknown_error", total_images |-> 0, images_capped |-> FALSE,
     processing_time_ms |-> 0, per_image_times |-> None, image_validation |-> None,
     retry_after_seconds |-> None, rate_limit_info |-> None, timing_breakdown |-> None]

\* ProductProcessor._create_failed_measurement
_create_failed_measurement(args) ==
    [ProductMeasurement(
         "failed",
         ZeroDimensions,
         [wirecore_visible |-> FALSE, frame_geometry |-> "unknown", transparency |-> "opaque",
          dominant_colors |-> <<>>, surface_texture |-> "smooth", suitable_for_kids |-> FALSE],
         [frame_material_apparent |-> "indeterminate", lens_tint |-> "indeterminate",
          has_nose_pads |-> FALSE, temple_style |-> "indeterminate"],
         Frac(0, 1),
         QualityFlags(TRUE, FALSE, FALSE, args.total_images > 0))
     EXCEPT !.error_type = Some(args.error_type),
            !.retry_after_seconds = args.retry_after_seconds,
            !.rate_limit_info = args.rate_limit_info,
            !.images_capped = args.images_capped,
            !.total_images_provided = args.total_images,
            !.images_successfully_analyzed = 0,
            !.processing_time_ms = args.processing_time_ms,
            !.per_image_time_ms = IF args.per_image_times = None THEN <<>> ELSE args.per_image_times[1],
            !.image_validation = args.image_validation,
            !.timing_breakdown = args.timing_breakdown]

\* the mean confidence of the quality filter: sum of the five confidences / 5
avg_confidence(parsed) ==
    Frac(SumSeq([k \in 1..5 |-> parsed.visual_dimensions[DimNames[k]].confidence]), 5)

\* ParseAndFilter rejecting a mean confidence equal to the threshold
RECURSIVE ParseAndFilter_strict(_, _)
ParseAndFilter_strict(analysis_results, i) ==
    IF i >= Len(analysis_results) THEN <<>>
    ELSE LET parsed == parse_vision_response(analysis_results[i + 1])
             keep == /\ parsed # None
                     /\ FracLess(Frac(MIN_CONFIDENCE_THRESHOLD, 1), avg_confidence(parsed[1]))
         IN  (IF keep THEN <<[i |-> i, parsed |-> parsed[1]]>> ELSE <<>>)
             \o ParseAndFilter_strict(analysis_results, i + 1)

\* the parse-and-filter loop of process_product: the responses kept, with their index i
RECURSIVE ParseAndFilter(_, _)
ParseAndFilter(analysis_results, i) ==
    IF i >= Len(analysis_results) THEN <<>>
    ELSE LET parsed == parse_vision_response(analysis_results[i + 1])
             keep == /\ parsed # None
                     /\ ~FracLess(avg_confidence(parsed[1]), Frac(MIN_CONFIDENCE_THRESHOLD, 1))
         IN  (IF keep THEN <<[i |-> i, parsed |-> parsed[1]]>> ELSE <<>>)
             \o ParseAndFilter(analysis_results, i + 1)

\* PerImageAnalysis entries appended by the loop
PerImageAnalysis(kept, capped_urls, per_image_times) ==
    [k \in 1..Len(kept) |->
        [image_url |-> IF kept[k].i < Len(capped_urls) THEN Some(capped_urls[kept[k].i + 1]) ELSE None,
         visual_dimensions |-> kept[k].parsed.visual_dimensions,
         processing_time_ms |-> IF kept[k].i < Len(per_image_times)
                                THEN per_image_times[kept[k].i + 1] ELSE 0]]

\* ProductProcessor._calculate_quality_flags
Processor_calculate_quality_flags(measurement, parsed_results, successful_images, total_images) ==
    LET low_confidence == FracLess(measurement.aggregate_confidence, Frac(LOW_CONFIDENCE_LIMIT, 1))
        all_scores == FlatSeq([k \in 1..Len(parsed_results) |->
                                 [j \in 1..5 |-> parsed_results[k].visual_dimensions[DimNames[j]].score]])
        high_variance == /\ Len(parsed_results) > 1
                         /\ MaxSeq(all_scores) - MinSeq(all_scores) > HIGH_VARIANCE_RANGE
    IN  QualityFlags(low_confidence, high_variance,
                     successful_images = 1, successful_images < total_images)

\* the way a call ends: it returns measurement m, or an exception leaves process_product
Returned(m) == [raised |-> FALSE, m |-> Some(m)]
Raised == [raised |-> TRUE, m |-> None]

\* HandleException with the generic branch re-raising instead of returning
HandleException_reraise(e, total_images, processing_time_ms, image_validation) ==
    IF UnhandledIsRateLimit(e)
    THEN Returned(_create_failed_measurement(
             [FailedArgs EXCEPT !.error_type = "rate_limited",
                                !.total_images = total_images,
                                !.processing_time_ms = processing_time_ms,
                                !.retry_after_seconds = Some(_parse_retry_delay(e)),
                                !.rate_limit_info = Some(RateLimitGuidance),
                                !.image_validation = image_validation]))
    ELSE Raised

\* the except branch of process_product: how the call ends for exception e
HandleException(e, total_images, processing_time_ms, image_validation) ==
    IF UnhandledIsRateLimit(e)
    THEN Returned(_create_failed_measurement(
             [FailedArgs EXCEPT !.error_type = "rate_limited",
                                !.total_images = total_images,
                                !.images_capped = FALSE,
                                !.processing_time_ms = processing_time_ms,
                                !.retry_after_seconds = Some(_parse_retry_delay(e)),
                                !.rate_limit_info = Some(RateLimitGuidance),
                                !.image_validation = image_validation]))
    ELSE Returned(_create_failed_measurement(
             [FailedArgs EXCEPT !.error_type = "unknown_error",
                                !.total_images = total_images,
                                !.processing_time_ms = processing_time_ms]))

\* ------------------------------------------------------------------------
\* State
\* ------------------------------------------------------------------------
VARIABLES
    now,                  \* the clock read by time.perf_counter(), seconds
    _last_product_time,   \* ProductProcessor._last_product_time
    pc,                   \* where process_product stands: idle, an await point, or done
    product,              \* the ProductInput of the call
    loc,                  \* the local variables of process_product
    env,                  \* what the external collaborators were asked and answered in this call
    measurement,          \* the ProductMeasurement returned by the call, None before it returns
    raised,               \* the call ended by raising instead of returning
    processed,            \* calls completed on this processor instance
    starts,               \* pipeline start times of the previous and the current call
    arg,                  \* the argument of a function applied on its own
    ret                   \* the outcomes of the applications of that function, oldest first

processor_vars == <<now, _last_product_time, pc, product, loc, env, measurement, raised, processed, starts>>

vars == <<now, _last_product_time, pc, product, loc, env, measurement, raised, processed, starts, arg, ret>>

Latencies == { k * LatencyStep : k \in 0..MaxLatencySteps }

Ms(seconds) == seconds * 1000

\* the timing dict and the locals at the start of a call
LocInit ==
    [start_time |-> 0, sleep_for |-> 0,
     image_validation |-> None,
     timing |-> [url_validation_ms |-> 0, image_fetch_ms |-> 0, gemini_api_ms |-> 0,
                 aggregation_ms |-> 0, total_ms |-> 0],
     valid_urls |-> <<>>, capped_urls |-> <<>>, images_capped |-> FALSE,
     original_image_count |-> 0,
     valid_images |-> <<>>, gemini_start |-> 0, results |-> <<>>, timings |-> <<>>]

EnvInit ==
    [latency |-> 0,             \* every await of this call is late by this many seconds
     waited |-> FALSE,          \* the pacing sleep was taken
     validated |-> None,        \* the valid URLs returned by validate_image_urls
     fetched |-> <<>>,          \* the URLs handed to image_loader.load
     fetch_outcomes |-> <<>>,   \* per fetched URL: "bytes", "none" or "exc"
     vision_images |-> <<>>,    \* the images handed to the vision call, by the URL they came from
     vision_started |-> <<>>,   \* the clock at the start of each vision call (img_start)
     vision_error |-> None,     \* the message of the exception the vision call raised
     unhandled |-> None,        \* the message of an exception that reached the outer except
     aggregated |-> None]       \* the list handed to Aggregator.aggregate

ProcessorInit ==
    /\ now = 1
    /\ _last_product_time = 0
    /\ pc = "idle"
    /\ product = [image_urls |-> <<>>]
    /\ loc = LocInit
    /\ env = EnvInit
    /\ measurement = None
    /\ raised = FALSE
    /\ processed = 0
    /\ starts = [prev |-> None, cur |-> None]

Init ==
    /\ ProcessorInit
    /\ arg = None
    /\ ret = <<>>

\* the elements of urls that are in valid, in the order of urls
RECURSIVE SelectUrls(_, _)
SelectUrls(urls, valid) ==
    IF urls = <<>> THEN <<>>
    ELSE (IF Head(urls) \in valid THEN <<Head(urls)>> ELSE <<>>) \o SelectUrls(Tail(urls), valid)

\* [img for img in image_results if img is not None], an image named by its URL
RECURSIVE ValidImages(_, _)
ValidImages(urls, outcomes) ==
    IF urls = <<>> THEN <<>>
    ELSE (IF Head(outcomes) = "bytes" THEN <<Head(urls)>> ELSE <<>>)
         \o ValidImages(Tail(urls), Tail(outcomes))

\* _apply_product_rate_limit sleeping for the elapsed time instead of the remaining time
_apply_product_rate_limit_elapsed(t, last_product_time) ==
    LET elapsed == t - last_product_time
    IN  IF last_product_time > 0 /\ elapsed < API_CALL_DELAY_SECONDS
        THEN Max(elapsed, 1)
        ELSE 0

\* _apply_product_rate_limit: the seconds to sleep when the clock reads t, 0 for no sleep
_apply_product_rate_limit(t, last_product_time) ==
    LET elapsed == t - last_product_time
    IN  IF last_product_time > 0 /\ elapsed < API_CALL_DELAY_SECONDS
        THEN API_CALL_DELAY_SECONDS - elapsed
        ELSE 0

\* capped_urls = valid_urls[:settings.MAX_IMAGES_PER_PRODUCT]
CappedUrls(valid_urls) == Prefix(valid_urls, MAX_IMAGES_PER_PRODUCT)

\* ImagesCapped with >= in place of >
ImagesCapped_ge(valid_urls) == Len(valid_urls) >= MAX_IMAGES_PER_PRODUCT

\* images_capped = len(valid_urls) > settings.MAX_IMAGES_PER_PRODUCT
ImagesCapped(valid_urls) == Len(valid_urls) > MAX_IMAGES_PER_PRODUCT

\* LoadError looking at the first gathered result only
LoadError_first(outcomes) == outcomes[1] = "exc"

\* the loop of _load_images_with_tracking over the gathered results finds an exception
LoadError(outcomes) == \E k \in DOMAIN outcomes : outcomes[k] = "exc"

\* ImageStart with the sleep taken before the first image as well
ImageStart_always(i, t, late) == t + API_CALL_DELAY_SECONDS + late

\* the loop of _analyze_images_with_tracking up to img_start: the clock after the sleep
\* between images, which is skipped before the first image and may return late
ImageStart(i, t, late) == IF i > 0 THEN t + API_CALL_DELAY_SECONDS + late ELSE t

\* the call ends at time t
Finish(outcome, t) ==
    /\ measurement' = outcome.m
    /\ raised' = outcome.raised
    /\ pc' = "done"
    /\ now' = t

\* ------------------------------------------------------------------------
\* process_product, one action per await point
\* ------------------------------------------------------------------------
\* entry of process_product up to the sleep of _apply_product_rate_limit,
\* or through line 53 when no sleep is due
Call(n, gap, d) ==
    /\ pc = "idle"
    /\ processed < MaxProducts
    /\ LET t == now + gap
           sleep_for == _apply_product_rate_limit(t, _last_product_time)
           sleeps == sleep_for > 0
       IN  /\ now' = t
           /\ product' = [image_urls |-> [k \in 1..n |-> k]]
           /\ loc' = [LocInit EXCEPT !.start_time = t, !.sleep_for = sleep_for]
           /\ env' = [EnvInit EXCEPT !.latency = d]
           /\ measurement' = None
           /\ raised' = FALSE
           /\ IF sleeps
              THEN /\ pc' = "rate_limit_sleep"
                   /\ UNCHANGED <<_last_product_time, starts>>
              ELSE /\ pc' = "validate"
                   /\ _last_product_time' = t
                   /\ starts' = [prev |-> starts.cur, cur |-> Some(t)]
    /\ UNCHANGED processed
    /\ UNCHANGED <<arg, ret>>

\* asyncio.sleep of _apply_product_rate_limit returns, line 53 records the start
RateLimitWake ==
    /\ pc = "rate_limit_sleep"
    /\ LET t == now + loc.sleep_for + env.latency
       IN  /\ now' = t
           /\ _last_product_time' = t
           /\ starts' = [prev |-> starts.cur, cur |-> Some(t)]
    /\ pc' = "validate"
    /\ env' = [env EXCEPT !.waited = TRUE]
    /\ UNCHANGED <<product, loc, measurement, raised, processed>>
    /\ UNCHANGED <<arg, ret>>

\* validate_image_urls returns with the URLs in valid accepted
ValidateReturns(valid) ==
    /\ pc = "validate"
    /\ LET d == env.latency
           t == now + d
           urls == product.image_urls
           valid_urls == SelectUrls(urls, valid)
           timing == [loc.timing EXCEPT !.url_validation_ms = Ms(d)]
           image_validation ==
               Some([total_provided |-> Len(urls), valid_count |-> Len(valid_urls),
                     invalid_count |-> Len(urls) - Len(valid_urls),
                     invalid_urls |-> SelectUrls(urls, (1..Len(urls)) \ valid)])
       IN  /\ env' = [env EXCEPT !.validated = Some(valid_urls)]
           /\ IF valid_urls = <<>>
              THEN /\ Finish(Returned(_create_failed_measurement(
                                [FailedArgs EXCEPT !.error_type = "all_urls_invalid",
                                                   !.total_images = Len(urls),
                                                   !.images_capped = FALSE,
                                                   !.processing_time_ms = Ms(t - loc.start_time),
                                                   !.image_validation = image_validation,
                                                   !.timing_breakdown = Some(TimingBreakdown(timing))])), t)
                   /\ loc' = [loc EXCEPT !.timing = timing, !.image_validation = image_validation,
                                         !.valid_urls = valid_urls]
              ELSE /\ now' = t
                   /\ pc' = "load_images"
                   /\ loc' = [loc EXCEPT !.timing = timing, !.image_validation = image_validation,
                                         !.valid_urls = valid_urls,
                                         !.original_image_count = Len(urls),
                                         !.capped_urls = CappedUrls(valid_urls),
                                         !.images_capped = ImagesCapped(valid_urls)]
                   /\ UNCHANGED <<measurement, raised>>
    /\ UNCHANGED <<_last_product_time, product, processed, starts>>
    /\ UNCHANGED <<arg, ret>>

\* validate_image_urls raises e: the outer except answers
ValidateRaises(e) ==
    /\ pc = "validate"
    /\ env' = [env EXCEPT !.unhandled = Some(e)]
    /\ Finish(HandleException(e, Len(product.image_urls), Ms(now + env.latency - loc.start_time),
                              loc.image_validation), now + env.latency)
    /\ UNCHANGED <<_last_product_time, product, loc, processed, starts>>
    /\ UNCHANGED <<arg, ret>>

\* the stage failures after capping: _create_failed_measurement as called at lines 130, 145, 162, 217
StageFailure(error_type, l, timing, t, per_image_times) ==
    Returned(_create_failed_measurement(
        [FailedArgs EXCEPT !.error_type = error_type,
                           !.total_images = l.original_image_count,
                           !.images_capped = l.images_capped,
                           !.processing_time_ms = Ms(t - l.start_time),
                           !.per_image_times = per_image_times,
                           !.timing_breakdown = Some(TimingBreakdown(timing))]))

\* _load_images_with_tracking: the gather over image_loader.load returns,
\* outcomes[k] tells whether the load of capped_urls[k] gave bytes, gave None or raised
LoadImages(outcomes) ==
    /\ pc = "load_images"
    /\ DOMAIN outcomes = 1..Len(loc.capped_urls)
    /\ LET d == env.latency
           t == now + d
           timing == [loc.timing EXCEPT !.image_fetch_ms = Ms(d)]
           load_error == LoadError(outcomes)
           valid_images == ValidImages(loc.capped_urls, outcomes)
       IN  /\ env' = [env EXCEPT !.fetched = loc.capped_urls, !.fetch_outcomes = outcomes]
           /\ IF load_error
              THEN /\ Finish(StageFailure("image_download_failed", loc, timing, t, None), t)
                   /\ loc' = [loc EXCEPT !.timing = timing]
              ELSE IF valid_images = <<>>
              THEN /\ Finish(StageFailure("invalid_image_format", loc, timing, t, None), t)
                   /\ loc' = [loc EXCEPT !.timing = timing]
              ELSE /\ now' = t
                   /\ pc' = "analyze"
                   /\ loc' = [loc EXCEPT !.timing = timing, !.valid_images = valid_images,
                                         !.gemini_start = t]
                   /\ UNCHANGED <<measurement, raised>>
    /\ UNCHANGED <<_last_product_time, product, processed, starts>>
    /\ UNCHANGED <<arg, ret>>

\* process_product from line 173 to its return: parse, filter, aggregate, attach the metadata
Complete(l, total_urls, t) ==
    LET kept == ParseAndFilter(l.results, 0)
        parsed_results == [k \in 1..Len(kept) |-> kept[k].parsed]
        per_image_analysis == PerImageAnalysis(kept, l.capped_urls, l.timings)
        aggregated == aggregate(parsed_results)
        quality_flags == Processor_calculate_quality_flags(aggregated, parsed_results,
                                                           Len(l.valid_images), l.original_image_count)
        timing == [l.timing EXCEPT !.total_ms = Ms(t - l.start_time)]
    IN  IF parsed_results = <<>>
        THEN StageFailure("parse_error", l, l.timing, t, Some(l.timings))
        ELSE IF DeduplicateRaises(parsed_results)
        THEN HandleException(HexValueError, total_urls, Ms(t - l.start_time), l.image_validation)
        ELSE Returned([aggregated EXCEPT !.images_capped = l.images_capped,
                                         !.total_images_provided = l.original_image_count,
                                         !.images_successfully_analyzed = Len(parsed_results),
                                         !.processing_time_ms = timing.total_ms,
                                         !.per_image_time_ms = l.timings,
                                         !.quality_flags = quality_flags,
                                         !.error_type = None,
                                         !.image_validation = l.image_validation,
                                         !.per_image_analysis = per_image_analysis,
                                         !.timing_breakdown = Some(TimingBreakdown(timing))])

\* the list process_product hands to Aggregator.aggregate, None when it does not get there
Aggregated(results) ==
    LET kept == ParseAndFilter(results, 0)
    IN  IF kept = <<>> THEN None ELSE Some([k \in 1..Len(kept) |-> kept[k].parsed])

\* one turn of the loop of _analyze_images_with_tracking in which the vision call
\* returns response
VisionReturns(response) ==
    /\ pc = "analyze"
    /\ LET i == Len(loc.results)
           img_start == ImageStart(i, now, env.latency)
           t == img_start + env.latency
           results == Append(loc.results, response)
           timings == Append(loc.timings, Ms(t - img_start))
           last == i + 1 = Len(loc.valid_images)
           l == [loc EXCEPT !.results = results, !.timings = timings,
                            !.timing = IF last THEN [@ EXCEPT !.gemini_api_ms = Ms(t - loc.gemini_start)]
                                       ELSE @]
       IN  /\ loc' = l
           /\ env' = [env EXCEPT !.vision_images = Append(@, loc.valid_images[i + 1]),
                                 !.vision_started = Append(@, img_start),
                                 !.aggregated = IF last THEN Aggregated(results) ELSE @,
                                 !.unhandled = IF last /\ Aggregated(results) # None
                                                       /\ DeduplicateRaises(Aggregated(results)[1])
                                               THEN Some(HexValueError) ELSE @]
           /\ IF last
              THEN Finish(Complete(l, Len(product.image_urls), t), t)
              ELSE /\ now' = t
                   /\ UNCHANGED <<pc, measurement, raised>>
    /\ UNCHANGED <<_last_product_time, product, processed, starts>>
    /\ UNCHANGED <<arg, ret>>

\* VisionRaises with the except branch going round the loop again instead of returning
VisionRaises_retries(e) ==
    /\ pc = "analyze"
    /\ LET i == Len(loc.results)
           img_start == ImageStart(i, now, env.latency)
       IN  /\ now' = img_start + env.latency
           /\ env' = [env EXCEPT !.vision_images = Append(@, loc.valid_images[i + 1]),
                                 !.vision_started = Append(@, img_start),
                                 !.vision_error = Some(e)]
    /\ UNCHANGED <<pc, loc, measurement, raised>>
    /\ UNCHANGED <<_last_product_time, product, processed, starts>>
    /\ UNCHANGED <<arg, ret>>

\* one turn of the loop in which the vision call raises e
VisionRaises(e) ==
    /\ pc = "analyze"
    /\ LET i == Len(loc.results)
           img_start == ImageStart(i, now, env.latency)
           t == img_start + env.latency
           vision_error == IF VisionErrorIsRateLimit(e) THEN "rate_limited" ELSE "vision_model_error"
           timing == [loc.timing EXCEPT !.gemini_api_ms = Ms(t - loc.gemini_start)]
       IN  /\ loc' = [loc EXCEPT !.timing = timing]
           /\ env' = [env EXCEPT !.vision_images = Append(@, loc.valid_images[i + 1]),
                                 !.vision_started = Append(@, img_start),
                                 !.vision_error = Some(e)]
           /\ Finish(StageFailure(vision_error, loc, timing, t, Some(loc.timings)), t)
    /\ UNCHANGED <<_last_product_time, product, processed, starts>>
    /\ UNCHANGED <<arg, ret>>

\* one turn of the loop in which the model call neither returns nor raises:
\* the thread of asyncio.to_thread stays busy and wait_for is pending
VisionHangs ==
    /\ pc = "analyze"
    /\ LET i == Len(loc.results)
           img_start == ImageStart(i, now, env.latency)
       IN  /\ now' = img_start
           /\ env' = [env EXCEPT !.vision_images = Append(@, loc.valid_images[i + 1]),
                                 !.vision_started = Append(@, img_start)]
    /\ pc' = "vision_hung"
    /\ UNCHANGED <<_last_product_time, product, loc, measurement, raised, processed, starts>>
    /\ UNCHANGED <<arg, ret>>

\* VisionTimesOut with wait_for never giving up: the await stays pending
VisionTimesOut_blocks ==
    /\ pc = "vision_hung"
    /\ UNCHANGED vars

\* asyncio.wait_for gives up after GEMINI_API_TIMEOUT: analyze_image raises TimeoutError,
\* analyze_image_with_fallback re-raises it, the except branch of the loop classifies it
VisionTimesOut ==
    /\ pc = "vision_hung"
    /\ LET t == now + GEMINI_API_TIMEOUT
           e == TimeoutMessage
           vision_error == IF VisionErrorIsRateLimit(e) THEN "rate_limited" ELSE "vision_model_error"
           timing == [loc.timing EXCEPT !.gemini_api_ms = Ms(t - loc.gemini_start)]
       IN  /\ loc' = [loc EXCEPT !.timing = timing]
           /\ env' = [env EXCEPT !.vision_error = Some(e)]
           /\ Finish(StageFailure(vision_error, loc, timing, t, Some(loc.timings)), t)
    /\ UNCHANGED <<_last_product_time, product, processed, starts>>
    /\ UNCHANGED <<arg, ret>>

\* the caller takes the result; the processor is free for the next product
Return ==
    /\ pc = "done"
    /\ pc' = "idle"
    /\ processed' = processed + 1
    /\ product' = [image_urls |-> <<>>]
    /\ loc' = LocInit
    /\ env' = EnvInit
    /\ measurement' = None
    /\ raised' = FALSE
    /\ UNCHANGED <<now, _last_product_time, starts>>
    /\ UNCHANGED <<arg, ret>>

\* the longest URL list of the next product
UrlBound == IF processed = 0 THEN MaxUrls ELSE MaxUrlsLater

Next ==
    \/ \E n \in 0..UrlBound, gap \in Latencies, d \in Latencies : Call(n, gap, d)
    \/ RateLimitWake
    \/ \E valid \in SUBSET (1..Len(product.image_urls)) : ValidateReturns(valid)
    \/ \E e \in ErrorMessages : ValidateRaises(e)
    \/ \E outcomes \in [1..Len(loc.capped_urls) -> {"bytes", "none", "exc"}] : LoadImages(outcomes)
    \/ \E response \in Responses : VisionReturns(response)
    \/ \E e \in ErrorMessages : VisionRaises(e)
    \/ VisionHangs
    \/ VisionTimesOut
    \/ Return

Spec == Init /\ [][Next]_vars

\* what the collaborators and the event loop do to a call that is in flight: the pacing
\* sleep ends, an external call returns, raises or hangs, wait_for cuts a hung call off
Progress ==
    \/ RateLimitWake
    \/ \E e \in ErrorMessages : ValidateRaises(e)
    \/ \E valid \in SUBSET (1..Len(product.image_urls)) : ValidateReturns(valid)
    \/ \E outcomes \in [1..Len(loc.capped_urls) -> {"bytes", "none", "exc"}] : LoadImages(outcomes)
    \/ VisionHangs
    \/ VisionTimesOut
    \/ \E e \in ErrorMessages : VisionRaises(e)
    \/ \E response \in Responses : VisionReturns(response)

\* process_product under the assumption that no await of a call in flight is left
\* pending forever; the caller is free to stop calling
LiveSpec == Spec /\ WF_vars(Progress)

\* ------------------------------------------------------------------------
\* Aggregator.aggregate applied to lists of analyses
\* ------------------------------------------------------------------------
\* a ParsedImageAnalysis: scores and confidences in the order of DimNames
Analysis(scores, confidences, observable_attributes, visual_metadata, dominant_colors) ==
    [visual_dimensions |->
         [d \in DimSet |->
             LET k == CHOOSE k \in 1..5 : DimNames[k] = d
             IN  [score |-> scores[k], confidence |-> confidences[k]]],
     dominant_colors |-> dominant_colors,
     observable_attributes |-> observable_attributes,
     visual_metadata |-> visual_metadata]

ObsA ==
    [wirecore_visible |-> TRUE, frame_geometry |-> "round", transparency |-> "opaque",
     surface_texture |-> "matte", suitable_for_kids |-> FALSE]
ObsB ==
    [wirecore_visible |-> FALSE, frame_geometry |-> "oval", transparency |-> "transparent",
     surface_texture |-> "glossy", suitable_for_kids |-> TRUE]
ObsC ==
    [wirecore_visible |-> FALSE, frame_geometry |-> "aviator", transparency |-> "opaque",
     surface_texture |-> "smooth", suitable_for_kids |-> TRUE]
MetaA ==
    [frame_material_apparent |-> "metal", lens_tint |-> "clear", has_nose_pads |-> TRUE,
     temple_style |-> "standard"]
MetaB ==
    [frame_material_apparent |-> "plastic", lens_tint |-> "gray", has_nose_pads |-> FALSE,
     temple_style |-> "cable"]
MetaC ==
    [frame_material_apparent |-> "metal", lens_tint |-> "brown", has_nose_pads |-> FALSE,
     temple_style |-> "skull"]

Color(name, hex, coverage) ==
    [color |-> name, hex_approximation |-> hex, coverage_percentage |-> coverage]
Hex0000FF == <<"#", "0", "0", "0", "0", "F", "F">>

\* gender_expression at the lower bound, every confidence 1.0
AnalysisA ==
    Analysis(<<-50, 0, 0, 0, 50>>, <<100, 100, 100, 100, 100>>, ObsA, MetaA,
             <<Color("red", HexFF0000, 60)>>)
\* gender_expression 8.0 above AnalysisA, unequal confidences
AnalysisB ==
    Analysis(<<30, 10, 0, 0, 50>>, <<50, 100, 0, 80, 100>>, ObsB, MetaB,
             <<Color("blue", Hex0000FF, 40)>>)
\* gender_expression exactly 2.0 below AnalysisB, every confidence 0.0
AnalysisC ==
    Analysis(<<10, 10, 0, -10, 50>>, <<0, 0, 0, 0, 0>>, ObsC, MetaC, DefaultColors)
\* a colour whose hex_approximation does not parse
AnalysisHex ==
    Analysis(<<10, 0, 0, 0, 30>>, <<70, 70, 70, 70, 70>>, ObsB, MetaA,
             <<Color("Red", HexNA, 40)>>)

Analyses == { AnalysisA, AnalysisB, AnalysisC, AnalysisHex }

\* the lists aggregate is applied to
AggregateInputs == UNION { [1..n -> Analyses] : n \in 0..MaxAnalyses }

\* how a call of Aggregator.aggregate ends
AggregateOutcome(results) ==
    IF DeduplicateRaises(results) THEN Raised ELSE Returned(aggregate(results))

AggregateInit ==
    /\ ProcessorInit
    /\ arg \in AggregateInputs
    /\ ret = <<>>

\* one call aggregator.aggregate(product_id, arg)
Aggregate ==
    /\ Len(ret) < MaxApplications
    /\ ret' = Append(ret, AggregateOutcome(arg))
    /\ UNCHANGED arg
    /\ UNCHANGED processor_vars

AggregateNext == Aggregate

AggregateSpec == AggregateInit /\ [][AggregateNext]_vars

\* ------------------------------------------------------------------------
\* parse_vision_response applied to raw texts
\* ------------------------------------------------------------------------
\* the keys parse_vision_response reads from the decoded object
Fields == DimSet \cup AttrSet \cup { "dominant_colors" }

\* a response that supplies every field with a valid value that is not its default
SuppliedDim(d) ==
    CASE d = "gender_expression" -> Dim(-20, 90)
      [] d = "visual_weight" -> Dim(10, 80)
      [] d = "embellishment" -> Dim(0, 70)
      [] d = "unconventionality" -> Dim(30, 60)
      [] d = "formality" -> Dim(50, 100)
SuppliedAttr(a) ==
    CASE a \in BoolAttrs -> BoolV(TRUE)
      [] a = "frame_geometry" -> StrV("round")
      [] a = "transparency" -> StrV("transparent")
      [] a = "surface_texture" -> StrV("matte")
      [] a = "frame_material_apparent" -> StrV("metal")
      [] a = "lens_tint" -> StrV("gray")
      [] a = "temple_style" -> StrV("cable")
RedEntry == ColorObjJ(Some("red"), Some(HexFF0000), NumJ(60))
BlueEntry == ColorObjJ(Some("blue"), Some(Hex0000FF), NumJ(40))
SuppliedColors == ColorsListJ(<<RedEntry, BlueEntry>>)

\* the irregular values of a dimension key: missing, not an object, a score float()
\* rejects, values above the ranges, values below the ranges
DimVariant(i) ==
    CASE i = 1 -> DimAbsentJ
      [] i = 2 -> DimOtherJ
      [] i = 3 -> DimObjJ(BadJ, NumJ(90))
      [] i = 4 -> Dim(70, 150)
      [] i = 5 -> Dim(-70, -20)

\* the irregular values of a boolean key: missing, null, a string that is no boolean,
\* an object wrapping a boolean
BoolVariant(i) ==
    CASE i = 1 -> AbsentV
      [] i = 2 -> NullV
      [] i = 3 -> StrV("maybe")
      [] i = 4 -> DictV(BoolV(TRUE))

\* the irregular values of a categorical key: missing, null, a string outside the
\* enum, a boolean, an object wrapping a valid string
EnumVariant(a, i) ==
    CASE i = 1 -> AbsentV
      [] i = 2 -> NullV
      [] i = 3 -> StrV("bogus")
      [] i = 4 -> BoolV(TRUE)
      [] i = 5 -> DictV(SuppliedAttr(a))

\* the irregular values of dominant_colors: missing, not a list, an entry that is not
\* an object, an entry whose coverage float() rejects, an entry whose coverage is above 100
ColorsVariant(i) ==
    CASE i = 1 -> ColorsAbsentJ
      [] i = 2 -> ColorsOtherJ
      [] i = 3 -> ColorsListJ(<<ColorOtherJ, RedEntry>>)
      [] i = 4 -> ColorsListJ(<<RedEntry, ColorObjJ(Some("blue"), Some(Hex0000FF), BadJ)>>)
      [] i = 5 -> ColorsListJ(<<RedEntry, ColorObjJ(Some("blue"), Some(Hex0000FF), NumJ(150))>>)

VariantCount(f) == IF f \in BoolAttrs THEN 4 ELSE 5

\* which fields are irregular, and how
IrregularChoices ==
    LET sets == { F \in SUBSET Fields : Cardinality(F) <= MaxIrregular }
        all == UNION { [F -> 1..5] : F \in sets }
    IN  { c \in all : \A f \in DOMAIN c : c[f] <= VariantCount(f) }

\* the decoded object of the response chosen by c
DataFor(c) ==
    [dims |-> [d \in DimSet |-> IF d \in DOMAIN c THEN DimVariant(c[d]) ELSE SuppliedDim(d)],
     dominant_colors |-> IF "dominant_colors" \in DOMAIN c THEN ColorsVariant(c["dominant_colors"])
                         ELSE SuppliedColors,
     attrs |-> [a \in AttrSet |->
                  IF a \notin DOMAIN c THEN SuppliedAttr(a)
                  ELSE IF a \in BoolAttrs THEN BoolVariant(c[a])
                  ELSE EnumVariant(a, c[a])]]

\* the raw texts parse_vision_response is applied to
ParseInputs ==
    { JsonText(DataFor(c)) : c \in IrregularChoices }
    \cup { BrokenText(DataFor(c)) : c \in { c \in IrregularChoices : DOMAIN c \subseteq DimSet } }
    \cup { ProseText }

ParseInit ==
    /\ ProcessorInit
    /\ arg \in ParseInputs
    /\ ret = <<>>

\* one call parse_vision_response(arg)
Parse ==
    /\ Len(ret) < MaxApplications
    /\ ret' = Append(ret, parse_vision_response(arg))
    /\ UNCHANGED arg
    /\ UNCHANGED processor_vars

ParseNext == Parse

ParseSpec == ParseInit /\ [][ParseNext]_vars

\* ------------------------------------------------------------------------
\* Aggregator._deduplicate_colors applied to flat colour lists
\* ------------------------------------------------------------------------
HexFA0000 == <<"#", "F", "A", "0", "0", "0", "0">>
Hex000000 == <<"#", "0", "0", "0", "0", "0", "0">>
Hex320000 == <<"#", "3", "2", "0", "0", "0", "0">>

\* the colours of the lists: two blues of which one is close to red, a pair at RGB
\* distance exactly 50, and a colour whose hex_approximation does not parse
Palette ==
    { Color("red", HexFF0000, 60), Color("blue", Hex0000FF, 40), Color("blue", HexFA0000, 30),
      Color("black", Hex000000, 20), Color("charcoal", Hex320000, 10), Color("Red", HexNA, 40) }

DedupInputs == UNION { [1..n -> Palette] : n \in 0..MaxColors }

\* the colours of a list, each with its position in the list
Positioned(all_colors) ==
    [i \in 1..Len(all_colors) |->
        [color |-> all_colors[i].color, hex_approximation |-> all_colors[i].hex_approximation,
         coverage_percentage |-> all_colors[i].coverage_percentage, at |-> i]]

\* color_groups at the end of the grouping loop, each group as the positions of its members
GroupsOf(all_colors) ==
    LET color_groups == GroupColors(Positioned(all_colors), <<>>)
    IN  [g \in 1..Len(color_groups) |-> [j \in 1..Len(color_groups[g]) |-> color_groups[g][j].at]]

\* average_hex raises for some group: a colour of the list has no parseable hex
MergeRaises(all_colors) ==
    \E k \in 1..Len(all_colors) : hex_to_rgb(all_colors[k].hex_approximation) = None

\* how a call of _deduplicate_colors ends: the groups it formed, and either the
\* exception of average_hex or merged_colors before the sort and the list returned
DedupOutcome(all_colors) ==
    LET color_groups == GroupColors(all_colors, <<>>)
    IN  IF MergeRaises(all_colors)
        THEN [raised |-> TRUE, groups |-> GroupsOf(all_colors), merged |-> <<>>, colors |-> <<>>]
        ELSE [raised |-> FALSE, groups |-> GroupsOf(all_colors),
              merged |-> [g \in 1..Len(color_groups) |-> MergeGroup(color_groups[g])],
              colors |-> _deduplicate_colors(all_colors)]

DedupInit ==
    /\ ProcessorInit
    /\ arg \in DedupInputs
    /\ ret = <<>>

\* one call self._deduplicate_colors(arg)
Deduplicate ==
    /\ Len(ret) < MaxApplications
    /\ ret' = Append(ret, DedupOutcome(arg))
    /\ UNCHANGED arg
    /\ UNCHANGED processor_vars

DedupNext == Deduplicate

DedupSpec == DedupInit /\ [][DedupNext]_vars

\* ------------------------------------------------------------------------
\* ProductProcessor._calculate_variance_metrics applied to lists of analyses
\* ------------------------------------------------------------------------
\* the square of statistics.stdev(scores), len(scores) > 1: the sum of the squared
\* deviations from the mean divided by len(scores) - 1, in squared tenths
stdev_squared(scores) ==
    LET n == Len(scores)
        total == SumSeq(scores)
        squares == SumSeq([k \in 1..n |-> scores[k] * scores[k]])
    IN  Frac(n * squares - total * total, n * (n - 1))

\* _calculate_variance_metrics: per dimension the square of the value it stores
_calculate_variance_metrics(parsed_results) ==
    [dim_name \in DimSet |->
        IF Len(parsed_results) < 2 THEN Frac(0, 1)
        ELSE stdev_squared([k \in 1..Len(parsed_results) |->
                               parsed_results[k].visual_dimensions[dim_name].score])]

VarianceInit ==
    /\ ProcessorInit
    /\ arg \in AggregateInputs
    /\ ret = <<>>

\* one call self._calculate_variance_metrics(arg)
CalculateVariance ==
    /\ Len(ret) < MaxApplications
    /\ ret' = Append(ret, _calculate_variance_metrics(arg))
    /\ UNCHANGED arg
    /\ UNCHANGED processor_vars

VarianceNext == CalculateVariance

VarianceSpec == VarianceInit /\ [][VarianceNext]_vars

\* ------------------------------------------------------------------------
\* GeminiVisionClient.analyze_image_with_fallback, one action per model tried
\* ------------------------------------------------------------------------
\* settings.FALLBACK_MODELS
FALLBACK_MODELS == <<"gemini-2.5-flash", "gemini-2.5-flash-lite", "gemini-3-flash-preview">>

\* what the API does when a model is asked: it answers, it hangs, or it raises e
ModelBehaviours ==
    { [kind |-> "answers", e |-> <<>>], [kind |-> "hangs", e |-> <<>>] }
    \cup { [kind |-> "raises", e |-> e] : e \in ErrorMessages }

\* one event of a call: a model was tried, the call returned text, or the call raised e
Event(event, model, ok, text, e) ==
    [event |-> event, model |-> model, ok |-> ok, text |-> text, e |-> e]

\* analyze_image for a model that behaves as b: response.text, the TimeoutError of
\* wait_for, or the exception wrapped as "Failed to analyze image with Gemini: ..."
analyze_image(model, b) ==
    CASE b.kind = "answers" -> Event("try", model, TRUE, model, <<>>)
      [] b.kind = "hangs" -> Event("try", model, FALSE, "", TimeoutMessage)
      [] OTHER -> Event("try", model, FALSE, "", <<"Failed to analyze image with Gemini: ">> \o b.e)

\* FallbackIsRateLimit taking every error for a rate limit
FallbackIsRateLimit_any(e) == TRUE

\* the test of the except branch of analyze_image_with_fallback
FallbackIsRateLimit(e) ==
    Contains(e, "429") \/ Contains(Lower(e), "quota") \/ Contains(Lower(e), "rate")

\* the exception raised when the list is exhausted
AllRateLimited(last_error) ==
    <<"All models ", "rate", " ", "limit", "ed. Last error: ">> \o last_error

\* the models tried so far in this call
Tries == SelectSeq(ret, LAMBDA ev : ev.event = "try")

\* the call has returned or raised
Ended == ret # <<>> /\ ret[Len(ret)].event # "try"

\* the behaviours the list of models may show to one call
FallbackInputs == [1..Len(FALLBACK_MODELS) -> ModelBehaviours]

FallbackInit ==
    /\ ProcessorInit
    /\ arg \in FallbackInputs
    /\ ret = <<>>

\* one turn of the loop over self.fallback_models
TryModel ==
    /\ ~Ended
    /\ Len(Tries) < Len(FALLBACK_MODELS)
    /\ LET k == Len(Tries) + 1
           try == analyze_image(FALLBACK_MODELS[k], arg[k])
       IN  ret' = IF try.ok
                  THEN ret \o <<try, Event("return", try.model, TRUE, try.text, <<>>)>>
                  ELSE IF FallbackIsRateLimit(try.e)
                  THEN Append(ret, try)
                  ELSE ret \o <<try, Event("raise", try.model, FALSE, "", try.e)>>
    /\ UNCHANGED arg
    /\ UNCHANGED processor_vars

\* the loop ran out of models: the raise after the loop
Exhausted ==
    /\ ~Ended
    /\ Len(Tries) = Len(FALLBACK_MODELS)
    /\ ret' = Append(ret, Event("raise", "", FALSE, "", AllRateLimited(ret[Len(ret)].e)))
    /\ UNCHANGED arg
    /\ UNCHANGED processor_vars

FallbackNext == TryModel \/ Exhausted

FallbackSpec == FallbackInit /\ [][FallbackNext]_vars

\* ------------------------------------------------------------------------
\* The confidence filter of process_product and aggregate_confidence, in the
\* arithmetic of Python floats (IEEE 754 binary64, round to nearest, ties to
\* even).  A double x is the record [c, e, D] with
\*     x = (c * 2^58 + e) / (D * 2^58):
\* c / D is the decimal the value stands near and e the distance from it, a
\* small integer.  Every double from 2^-6 up is a multiple of 2^-58, so this
\* writes the doubles of this section exactly.
\* ------------------------------------------------------------------------
\* 2^m modulo D for 40 <= m < 70, as 2^20 * 2^20 * 2^(m-40) to stay within TLC's integers
PowMod(m, D) == ((((2^20 % D) * (2^20 % D)) % D) * (2^(m - 40) % D)) % D

\* x >= 2^k
AtLeastPowerOfTwo(x, k) ==
    LET num == IF k >= 0 THEN 2^k ELSE 1
        den == IF k >= 0 THEN 1 ELSE 2^(0 - k)
    IN  \/ x.c * den > x.D * num
        \/ x.c * den = x.D * num /\ x.e >= 0

\* the k with 2^k <= x < 2^(k+1), for 2^-6 <= x < 8
Binade(x) ==
    CHOOSE k \in -6..2 : AtLeastPowerOfTwo(x, k) /\ (k = 2 \/ ~AtLeastPowerOfTwo(x, k + 1))

\* the double nearest to the real number x, ties to the even significand: the doubles of
\* the binade of x are the multiples of 2^(k-52), which is 2^(k+6) in units of 2^-58
RoundToDouble(x) ==
    IF x.c = 0 /\ x.e = 0 THEN x
    ELSE LET k == Binade(x)
             ulp == 2^(k + 6)
             G == x.D * ulp
             above == (ulp * (((x.c % x.D) * PowMod(52 - k, x.D)) % x.D) + x.e) % G
             above2 == (2 * ulp * (((x.c % x.D) * PowMod(51 - k, x.D)) % x.D) + x.e) % (2 * G)
             odd == above2 >= G
         IN  IF 2 * above < G \/ (2 * above = G /\ ~odd)
             THEN [x EXCEPT !.e = x.e - above]
             ELSE [x EXCEPT !.e = x.e + G - above]

\* float(v) of a JSON number with two decimals, given in hundredths
Double(hundredths) == RoundToDouble([c |-> hundredths, e |-> 0, D |-> 100])

\* x + y of two floats
FloatAdd(x, y) == RoundToDouble([c |-> x.c + y.c, e |-> x.e + y.e, D |-> x.D])

\* sum(xs) of a list of floats: the additions are made from the left, each rounded
RECURSIVE FloatSumFrom(_, _)
FloatSumFrom(acc, xs) ==
    IF xs = <<>> THEN acc ELSE FloatSumFrom(FloatAdd(acc, Head(xs)), Tail(xs))

FloatSum(xs) == FloatSumFrom([c |-> 0, e |-> 0, D |-> xs[1].D], xs)

\* x / n of a float and an int
FloatDivide(x, n) == RoundToDouble([x EXCEPT !.D = x.D * n])

\* x < y of two floats
FloatLess(x, y) ==
    \/ x.c * y.D < y.c * x.D
    \/ x.c * y.D = y.c * x.D /\ x.e * y.D < y.e * x.D

\* statistics.mean(data): the exact sum divided by the length, rounded once
statistics_mean(data) ==
    RoundToDouble([c |-> SumSeq([k \in 1..Len(data) |-> data[k].c]),
                   e |-> SumSeq([k \in 1..Len(data) |-> data[k].e]),
                   D |-> data[1].D * Len(data)])

\* the test of the filter on the five confidences of a parsed response:
\* not (sum([...]) / 5 < settings.MIN_CONFIDENCE_THRESHOLD)
PassesFilter(confidences) ==
    LET doubles == [d \in 1..5 |-> Double(confidences[d])]
    IN  ~FloatLess(FloatDivide(FloatSum(doubles), 5), Double(MIN_CONFIDENCE_THRESHOLD))

\* the responses process_product keeps, in order
RECURSIVE FilterByConfidence(_)
FilterByConfidence(responses) ==
    IF responses = <<>> THEN <<>>
    ELSE (IF PassesFilter(Head(responses)) THEN <<Head(responses)>> ELSE <<>>)
         \o FilterByConfidence(Tail(responses))

\* what process_product makes of the confidences of the responses of a product: the
\* status, aggregate_confidence as Aggregator.aggregate computes it from the responses
\* kept, and low_confidence as ProductProcessor._calculate_quality_flags sets it
ConfidenceOutcome(responses) ==
    LET kept == FilterByConfidence(responses)
        avg_confidence_of(d) == statistics_mean([k \in 1..Len(kept) |-> Double(kept[k][d])])
        aggregate_confidence == statistics_mean([d \in 1..5 |-> avg_confidence_of(d)])
    IN  IF kept = <<>>
        THEN [processing_status |-> "failed", successful_images |-> 0,
              aggregate_confidence |-> Double(0), low_confidence |-> TRUE]
        ELSE [processing_status |-> "success", successful_images |-> Len(kept),
              aggregate_confidence |-> aggregate_confidence,
              low_confidence |-> FloatLess(aggregate_confidence, Double(LOW_CONFIDENCE_LIMIT))]

\* the confidences a response reports for a dimension, in hundredths
ReportedConfidences == {5, 35, 70}

\* the five confidences of a response, and those in ascending order
RatedResponses == [1..5 -> ReportedConfidences]

AscendingResponses == { r \in RatedResponses : \A d \in 1..4 : r[d] <= r[d + 1] }

\* the products: one response with any five confidences, or up to MaxRated responses
\* with ascending confidences
ConfidenceInputs ==
    [1..1 -> RatedResponses] \cup UNION { [1..n -> AscendingResponses] : n \in 2..MaxRated }

ConfidenceInit ==
    /\ ProcessorInit
    /\ arg \in ConfidenceInputs
    /\ ret = <<>>

\* the filter and the aggregation applied to the responses arg
FilterAndAggregate ==
    /\ Len(ret) < MaxApplications
    /\ ret' = Append(ret, ConfidenceOutcome(arg))
    /\ UNCHANGED arg
    /\ UNCHANGED processor_vars

ConfidenceNext == FilterAndAggregate

ConfidenceSpec == ConfidenceInit /\ [][ConfidenceNext]_vars

\* ------------------------------------------------------------------------
\* process_product called by several requests at once on the one processor
\* instance of the server: the calls are coroutines of one event loop and
\* switch only at an await, so the pacing of a call is two steps, entry up
\* to the sleep of _apply_product_rate_limit and the return of that sleep.
\* arg holds the position of each request, ret the pipeline starts in the
\* order in which line 53 recorded them.
\* ------------------------------------------------------------------------
Tasks == 1..MaxTasks

\* a request that is not inside process_product
TaskIdle(calls) == [pc |-> "idle", cursor |-> 0, due |-> 0, alone |-> TRUE, calls |-> calls]

\* no request other than task is inside process_product
NoneElseInFlight(tasks, task) == \A o \in Tasks \ {task} : tasks[o].pc = "idle"

\* line 53: the call of task starts its pipeline at time t and moves the cursor there
PipelineStart(tasks, task, t, cursor, alone) ==
    /\ now' = t
    /\ _last_product_time' = t
    /\ ret' = Append(ret, [task |-> task, at |-> t, cursor |-> cursor, alone |-> alone])

\* analyze awaits processor.process_product: lines 49-53 up to the first await, which is
\* the sleep of _apply_product_rate_limit when one is due and the pipeline's otherwise
ConcurrentCall(task, gap) ==
    /\ arg[task].pc = "idle"
    /\ arg[task].calls < MaxProducts
    /\ LET t == now + gap
           sleep_for == _apply_product_rate_limit(t, _last_product_time)
           alone == NoneElseInFlight(arg, task)
           others == [o \in Tasks |-> IF arg[o].pc = "sleep" THEN [arg[o] EXCEPT !.alone = FALSE]
                                      ELSE arg[o]]
       IN  IF sleep_for > 0
           THEN /\ arg' = [others EXCEPT ![task] =
                             [pc |-> "sleep", cursor |-> _last_product_time,
                              due |-> t + sleep_for, alone |-> alone,
                              calls |-> arg[task].calls + 1]]
                /\ now' = t
                /\ UNCHANGED <<_last_product_time, ret>>
           ELSE /\ arg' = [others EXCEPT ![task] =
                             [pc |-> "pipeline", cursor |-> _last_product_time,
                              due |-> t, alone |-> alone,
                              calls |-> arg[task].calls + 1]]
                /\ PipelineStart(arg, task, t, _last_product_time, alone)
    /\ UNCHANGED <<pc, product, loc, env, measurement, raised, processed, starts>>

\* the sleep of _apply_product_rate_limit returns, not before it is due, and line 53
\* records the start without looking at the cursor again
ConcurrentWake(task, late) ==
    /\ arg[task].pc = "sleep"
    /\ LET t == Max(now, arg[task].due) + late
       IN  /\ arg' = [arg EXCEPT ![task].pc = "pipeline"]
           /\ PipelineStart(arg, task, t, arg[task].cursor, arg[task].alone)
    /\ UNCHANGED <<pc, product, loc, env, measurement, raised, processed, starts>>

\* process_product returns to analyze, which answers the request
ConcurrentReturn(task) ==
    /\ arg[task].pc = "pipeline"
    /\ arg' = [arg EXCEPT ![task] = TaskIdle(arg[task].calls)]
    /\ UNCHANGED <<now, _last_product_time, ret>>
    /\ UNCHANGED <<pc, product, loc, env, measurement, raised, processed, starts>>

ConcurrentInit ==
    /\ ProcessorInit
    /\ arg = [task \in Tasks |-> TaskIdle(0)]
    /\ ret = <<>>

ConcurrentNext ==
    \/ \E task \in Tasks, gap \in Latencies : ConcurrentCall(task, gap)
    \/ \E task \in Tasks, late \in Latencies : ConcurrentWake(task, late)
    \/ \E task \in Tasks : ConcurrentReturn(task)

ConcurrentSpec == ConcurrentInit /\ [][ConcurrentNext]_vars

\* ------------------------------------------------------------------------
\* Properties
\* ------------------------------------------------------------------------
ErrorTypes ==
    { "all_urls_invalid", "image_download_failed", "invalid_image_format", "rate_limited",
      "vision_model_error", "parse_error", "unknown_error" }

\* the call has returned a measurement
HasReturned == pc = "done" /\ measurement # None

Succeeded == HasReturned /\ measurement[1].processing_status = "success"

Failed == HasReturned /\ measurement[1].processing_status = "failed"

\* every vision call of the call has been made and has returned
AllVisionReturned ==
    /\ pc = "done"
    /\ loc.valid_images # <<>>
    /\ env.vision_error = None
    /\ Len(loc.results) = Len(loc.valid_images)

\* the responses, in order, that parse and whose five confidences have a mean of at
\* least the threshold, as parsed analyses
RECURSIVE Survivors(_)
Survivors(responses) ==
    IF responses = <<>> THEN <<>>
    ELSE LET parsed == parse_vision_response(Head(responses))
             passes == /\ parsed # None
                       /\ SumSeq([k \in 1..5 |-> parsed[1].visual_dimensions[DimNames[k]].confidence])
                            >= 5 * MIN_CONFIDENCE_THRESHOLD
         IN  (IF passes THEN <<parsed[1]>> ELSE <<>>) \o Survivors(Tail(responses))

\* C1: process_product never raises; it returns either a failed measurement with one of
\* the seven error types and images_successfully_analyzed = 0, or a successful
\* measurement without error type and with images_successfully_analyzed >= 1.
C1_ReturnsTypedMeasurement ==
    /\ ~raised
    /\ pc = "done" =>
         /\ measurement # None
         /\ \/ /\ measurement[1].processing_status = "failed"
               /\ measurement[1].error_type # None
               /\ measurement[1].error_type[1] \in ErrorTypes
               /\ measurement[1].images_successfully_analyzed = 0
            \/ /\ measurement[1].processing_status = "success"
               /\ measurement[1].error_type = None
               /\ measurement[1].images_successfully_analyzed >= 1

\* an exception reached the outer except and the call still returned a failed measurement
C1_Witness ==
    /\ HasReturned
    /\ env.unhandled # None
    /\ measurement[1].error_type = Some("unknown_error")

\* C2: the error type of a returned measurement names the stage that failed:
\* all_urls_invalid exactly when validation left no valid URL, image_download_failed
\* exactly when some fetch raised, invalid_image_format exactly when no fetch raised and
\* every fetch returned no bytes, parse_error exactly when every vision call returned and
\* no response survived parsing and filtering.
C2_ErrorTypeNamesStage ==
    HasReturned =>
        /\ (measurement[1].error_type = Some("all_urls_invalid")) <=> (env.validated = Some(<<>>))
        /\ (measurement[1].error_type = Some("image_download_failed"))
              <=> (\E k \in DOMAIN env.fetch_outcomes : env.fetch_outcomes[k] = "exc")
        /\ (measurement[1].error_type = Some("invalid_image_format"))
              <=> (/\ env.fetch_outcomes # <<>>
                   /\ \A k \in DOMAIN env.fetch_outcomes : env.fetch_outcomes[k] = "none")
        /\ (measurement[1].error_type = Some("parse_error"))
              <=> (AllVisionReturned /\ Survivors(loc.results) = <<>>)

\* a fetch after the first one raised while another one returned no bytes
C2_Witness ==
    /\ HasReturned
    /\ Len(env.fetch_outcomes) >= 2
    /\ env.fetch_outcomes[1] = "none"
    /\ env.fetch_outcomes[2] = "exc"
    /\ measurement[1].error_type = Some("image_download_failed")

\* C3: a vision-call error whose message contains '429', 'rate', 'quota' or 'limit'
\* (ignoring case) ends the product as rate_limited, any other as vision_model_error.
C3_VisionErrorClassification ==
    (HasReturned /\ env.vision_error # None) =>
        LET msg == Lower(env.vision_error[1])
            shaped == \/ Contains(msg, "429") \/ Contains(msg, "rate")
                      \/ Contains(msg, "quota") \/ Contains(msg, "limit")
        IN  measurement[1].error_type = Some(IF shaped THEN "rate_limited" ELSE "vision_model_error")

\* the message that ended the call as rate_limited, None when there is none
RateLimitMessage ==
    IF env.vision_error # None THEN env.vision_error
    ELSE env.unhandled

\* the message has a 'retry in <number>'
HasRetryIn(msg) ==
    \E k \in 1..(Len(msg) - 1) :
        LowerPiece(msg[k]) = "retry in " /\ LeadingDigits(msg[k + 1]) # None

\* C4: every rate_limited measurement carries retry_after_seconds (60 when the message
\* has no 'retry in <number>') and the static rate-limit guidance.
C4_RateLimitedCarriesRetry ==
    (HasReturned /\ measurement[1].error_type = Some("rate_limited")) =>
        /\ measurement[1].retry_after_seconds # None
        /\ measurement[1].rate_limit_info = Some(RateLimitGuidance)
        /\ (RateLimitMessage # None /\ ~HasRetryIn(RateLimitMessage[1]))
              => measurement[1].retry_after_seconds = Some(DEFAULT_RETRY_SECONDS)

\* C5: a failed measurement returned after URL validation completed carries the
\* validation results and the stage timings computed up to the failure.
C5_FailureKeepsInstrumentation ==
    (Failed /\ env.validated # None) =>
        /\ measurement[1].image_validation # None
        /\ measurement[1].image_validation = loc.image_validation
        /\ measurement[1].timing_breakdown = Some(TimingBreakdown(loc.timing))

\* C6: each pipeline start is at least API_CALL_DELAY_SECONDS after the previous
\* product's pipeline start, and the first product of the instance does not wait.
C6_ProductPacing ==
    /\ (starts.prev # None /\ starts.cur # None)
          => starts.cur[1] - starts.prev[1] >= API_CALL_DELAY_SECONDS
    /\ processed = 0 => (pc # "rate_limit_sleep" /\ ~env.waited)

\* a later product had to wait and has started its pipeline
C6_Witness ==
    /\ starts.prev # None
    /\ env.waited
    /\ pc = "validate"

C9_FlagsUseAnalyzedCount ==
    Succeeded =>
        /\ measurement[1].quality_flags.single_image_only
              <=> (measurement[1].images_successfully_analyzed = 1)
        /\ measurement[1].quality_flags.partial_analysis
              <=> (measurement[1].images_successfully_analyzed < measurement[1].total_images_provided)

\* for some single dimension the scores of the analyses are more than 2.0 apart
SomeDimensionRangeOver(results) ==
    \E d \in DimSet :
        \E a, b \in DOMAIN results :
            results[a].visual_dimensions[d].score - results[b].visual_dimensions[d].score
                > HIGH_VARIANCE_RANGE

\* C10: the high_variance flag the processor attaches equals the flag the aggregator
\* computes on the same list: some single dimension has scores more than 2.0 apart.
C10_HighVarianceAgrees ==
    Succeeded =>
        /\ measurement[1].quality_flags.high_variance
              = aggregate(env.aggregated[1]).quality_flags.high_variance
        /\ measurement[1].quality_flags.high_variance <=> SomeDimensionRangeOver(env.aggregated[1])

\* the application at position k of ret returned a measurement
ReturnedAt(k) == k \in DOMAIN ret /\ ~ret[k].raised

\* C11: Aggregator.aggregate on an empty list returns a failed measurement whose five
\* dimensions have score 0 and confidence 0, with aggregate_confidence 0.0, no dominant
\* colours, low_confidence true and the three other quality flags false.
C11_EmptyAggregation ==
    \A k \in DOMAIN ret :
        arg = <<>> =>
            /\ ReturnedAt(k)
            /\ ret[k].m[1].processing_status = "failed"
            /\ \A d \in DimSet :
                  /\ ret[k].m[1].visual_dimensions[d].score = Frac(0, 1)
                  /\ ret[k].m[1].visual_dimensions[d].confidence = Frac(0, 1)
            /\ ret[k].m[1].aggregate_confidence = Frac(0, 1)
            /\ ret[k].m[1].observable_attributes.dominant_colors = <<>>
            /\ ret[k].m[1].quality_flags = QualityFlags(TRUE, FALSE, FALSE, FALSE)

\* aggregate has been applied to the empty list
C11_Witness == arg = <<>> /\ ReturnedAt(1)

\* the fields both sentinel constructions set, apart from the quality flags
SentinelFields(m) ==
    [processing_status |-> m.processing_status,
     visual_dimensions |-> m.visual_dimensions,
     observable_attributes |-> m.observable_attributes,
     visual_metadata |-> m.visual_metadata,
     aggregate_confidence |-> m.aggregate_confidence]

\* C12 as stated: the measurement of the processor's failure path has the same status,
\* dimensions, observable attributes, metadata, aggregate_confidence and the same four
\* quality flags as the measurement the aggregator returns for empty input, for every
\* total image count.
C12_SentinelsIdentical ==
    Failed =>
        /\ SentinelFields(measurement[1]) = SentinelFields(aggregate(<<>>))
        /\ measurement[1].quality_flags = aggregate(<<>>).quality_flags

\* C12: the two measurements agree on status, dimensions, observable attributes,
\* metadata, aggregate_confidence, low_confidence, high_variance and single_image_only;
\* partial_analysis is false in the aggregator's and (total image count > 0) in the
\* processor's, so they are identical exactly for a total image count of 0.
C12_SentinelsAgreeUpToPartial ==
    Failed =>
        /\ SentinelFields(measurement[1]) = SentinelFields(aggregate(<<>>))
        /\ measurement[1].quality_flags.low_confidence = aggregate(<<>>).quality_flags.low_confidence
        /\ measurement[1].quality_flags.high_variance = aggregate(<<>>).quality_flags.high_variance
        /\ measurement[1].quality_flags.single_image_only = aggregate(<<>>).quality_flags.single_image_only
        /\ ~aggregate(<<>>).quality_flags.partial_analysis
        /\ measurement[1].quality_flags.partial_analysis <=> measurement[1].total_images_provided > 0

\* a failure of a product that supplied images
C12_Witness == Failed /\ measurement[1].total_images_provided > 0

\* the scores, and the confidences, of dimension d over the list of analyses
ScoresOf(results, d) == [k \in 1..Len(results) |-> results[k].visual_dimensions[d].score]
ConfidencesOf(results, d) == [k \in 1..Len(results) |-> results[k].visual_dimensions[d].confidence]

\* every score of the list lies in [-5,5] and every confidence in [0,1]
InDeclaredRanges(results) ==
    \A k \in DOMAIN results, d \in DimSet :
        /\ -50 <= results[k].visual_dimensions[d].score
        /\ results[k].visual_dimensions[d].score <= 50
        /\ 0 <= results[k].visual_dimensions[d].confidence
        /\ results[k].visual_dimensions[d].confidence <= 100

\* the fraction f lies in [lo, hi]
FracWithin(f, lo, hi) == f.den > 0 /\ lo * f.den <= f.num /\ f.num <= hi * f.den

\* C13: for a non-empty list of analyses with scores in [-5,5] and confidences in [0,1],
\* the measurement aggregate returns has aggregate_confidence in [0,1] and, for each
\* dimension, a score in [-5,5] that is the confidence-weighted average of the scores
\* (0.0 when the confidences sum to 0) and a confidence in [0,1] that is the plain mean.
C13_FusedValuesInRange ==
    \A k \in DOMAIN ret :
        (arg # <<>> /\ InDeclaredRanges(arg) /\ ReturnedAt(k)) =>
            /\ FracWithin(ret[k].m[1].aggregate_confidence, 0, 100)
            /\ \A d \in DimSet :
                  LET fused == ret[k].m[1].visual_dimensions[d]
                      total == SumSeq(ConfidencesOf(arg, d))
                      weighted == SumSeq([j \in 1..Len(arg) |->
                                            ScoresOf(arg, d)[j] * ConfidencesOf(arg, d)[j]])
                  IN  /\ FracWithin(fused.score, -50, 50)
                      /\ FracWithin(fused.confidence, 0, 100)
                      /\ IF total > 0 THEN fused.score.num * total = weighted * fused.score.den
                         ELSE fused.score.num = 0
                      /\ fused.confidence.num * Len(arg) = total * fused.confidence.den

\* three analyses fused, with unequal confidences and a dimension whose confidences sum to 0
C13_Witness ==
    /\ Len(arg) = 3
    /\ ReturnedAt(1)
    /\ \E d \in DimSet : SumSeq(ConfidencesOf(arg, d)) = 0
    /\ \E d \in DimSet : \E i, j \in DOMAIN arg :
          ConfidencesOf(arg, d)[i] # ConfidencesOf(arg, d)[j] /\ ScoresOf(arg, d)[i] # ScoresOf(arg, d)[j]

VotesOf(results, field) ==
    [k \in 1..Len(results) |->
        IF field \in ObservableAttrs THEN results[k].observable_attributes[field]
        ELSE results[k].visual_metadata[field]]

\* the aggregated value of a boolean or categorical field
AggregatedValue(m, field) ==
    IF field \in ObservableAttrs THEN m.observable_attributes[field] ELSE m.visual_metadata[field]

\* how often value v occurs in votes, and where it occurs first
Occurrences(votes, v) == Cardinality({ k \in DOMAIN votes : votes[k] = v })
FirstOccurrence(votes, v) == CHOOSE k \in DOMAIN votes : votes[k] = v /\ \A j \in 1..(k - 1) : votes[j] # v

\* C15: for each of the nine boolean and categorical fields the aggregated value is a
\* value of the highest occurrence count over the input analyses, and among the values
\* of that count the one that occurs first in input order.
C15_MajorityVote ==
    \A k \in DOMAIN ret :
        (arg # <<>> /\ ReturnedAt(k)) =>
            \A field \in AttrSet :
                LET votes == VotesOf(arg, field)
                    winner == AggregatedValue(ret[k].m[1], field)
                IN  /\ \E j \in DOMAIN votes : votes[j] = winner
                    /\ \A j \in DOMAIN votes :
                          \/ Occurrences(votes, votes[j]) < Occurrences(votes, winner)
                          \/ /\ Occurrences(votes, votes[j]) = Occurrences(votes, winner)
                             /\ FirstOccurrence(votes, winner) <= FirstOccurrence(votes, votes[j])

\* a field with three different votes (a three-way tie), and a field whose majority
\* value is not the first vote
C15_Witness ==
    /\ Len(arg) = 3
    /\ ReturnedAt(1)
    /\ \E field \in AttrSet :
          Cardinality({ VotesOf(arg, field)[j] : j \in 1..3 }) = 3
    /\ \E field \in AttrSet :
          /\ VotesOf(arg, field)[2] = VotesOf(arg, field)[3]
          /\ VotesOf(arg, field)[1] # VotesOf(arg, field)[2]

\* for some single dimension two analyses of the list have scores exactly 2.0 apart
SomeDimensionRangeExactly(results) ==
    \E d \in DimSet :
        \E a, b \in DOMAIN results :
            results[a].visual_dimensions[d].score - results[b].visual_dimensions[d].score
                = HIGH_VARIANCE_RANGE

\* C16: the aggregator sets high_variance exactly when at least two analyses contribute
\* and some single dimension has a highest score more than 2.0 above its lowest score,
\* sets partial_analysis false always, and sets single_image_only exactly when one
\* analysis contributes.
C16_AggregatorFlags ==
    \A k \in DOMAIN ret :
        ReturnedAt(k) =>
            /\ ret[k].m[1].quality_flags.high_variance
                  <=> (Len(arg) >= 2 /\ SomeDimensionRangeOver(arg))
            /\ ~ret[k].m[1].quality_flags.partial_analysis
            /\ ret[k].m[1].quality_flags.single_image_only <=> (Len(arg) = 1)

\* two analyses whose widest single-dimension range is exactly 2.0
C16_Witness ==
    /\ Len(arg) = 2
    /\ ReturnedAt(1)
    /\ SomeDimensionRangeExactly(arg)
    /\ ~SomeDimensionRangeOver(arg)
    /\ ~ret[1].m[1].quality_flags.high_variance

\* the documented default of a boolean or categorical field
DocumentedDefault(a) ==
    CASE a = "frame_geometry" -> "unknown"
      [] a = "transparency" -> "opaque"
      [] a = "surface_texture" -> "smooth"
      [] OTHER -> "indeterminate"

\* the value a parsed analysis holds for a boolean or categorical field
ParsedValue(parsed, a) ==
    IF a \in ObservableAttrs THEN parsed.observable_attributes[a] ELSE parsed.visual_metadata[a]

\* a dimension value that is an object with a numeric score and a numeric confidence
DimensionSupplied(j) == j.t = "obj" /\ j.score.t = "num" /\ j.confidence.t = "num"

\* a dimension value whose numbers lie in the declared ranges
DimensionInRange(j) ==
    /\ -50 <= j.score.v /\ j.score.v <= 50
    /\ 0 <= j.confidence.v /\ j.confidence.v <= 100

\* an entry of dominant_colors that is an object with a numeric coverage in [0,100]
ColorSupplied(e) ==
    /\ e.t = "obj"
    /\ e.coverage_percentage.t = "num"
    /\ 0 <= e.coverage_percentage.v /\ e.coverage_percentage.v <= 100

\* the boolean a bare or wrapped JSON value supplies, None when it supplies none
SuppliedBoolean(v) ==
    IF v.t = "bool" \/ (v.t = "dict" /\ v.w = "bool") THEN Some(v.b) ELSE None

\* the enum member a bare or wrapped JSON value supplies for field a, None when it
\* supplies none
SuppliedMember(v, a) ==
    IF (v.t = "str" \/ (v.t = "dict" /\ v.w = "str")) /\ v.s \in ValidValues(a) THEN Some(v.s)
    ELSE None

\* C17: parse_vision_response on a text whose JSON object decodes returns an analysis
\* whatever fields are missing or wrongly typed: such a field has its documented
\* default, and every field supplied with a valid value keeps that value.
C17_FieldsDefaultIndependently ==
    \A k \in DOMAIN ret :
        arg.kind = "json" =>
            /\ ret[k] # None
            /\ \A d \in DimSet :
                  LET j == arg.data.dims[d]
                  IN  /\ ~DimensionSupplied(j) => ret[k][1].visual_dimensions[d] = [score |-> 0, confidence |-> 50]
                      /\ (DimensionSupplied(j) /\ DimensionInRange(j))
                            => ret[k][1].visual_dimensions[d] = [score |-> j.score.v, confidence |-> j.confidence.v]
            /\ \A a \in BoolAttrs :
                  LET supplied == SuppliedBoolean(arg.data.attrs[a])
                  IN  ParsedValue(ret[k][1], a) = IF supplied = None THEN FALSE ELSE supplied[1]
            /\ \A a \in EnumAttrs :
                  LET supplied == SuppliedMember(arg.data.attrs[a], a)
                  IN  ParsedValue(ret[k][1], a) = IF supplied = None THEN DocumentedDefault(a) ELSE supplied[1]
            /\ \A i \in 1..Min(3, Len(arg.data.dominant_colors.items)) :
                  LET e == arg.data.dominant_colors.items[i]
                  IN  ColorSupplied(e) =>
                         \E c \in DOMAIN ret[k][1].dominant_colors :
                            ret[k][1].dominant_colors[c]
                               = [color |-> e.color[1], hex_approximation |-> e.hex_approximation[1],
                                  coverage_percentage |-> e.coverage_percentage.v]

\* the nearest value of [lo, hi]
Clamped(v, lo, hi) == IF v < lo THEN lo ELSE IF v > hi THEN hi ELSE v

\* every field of the decoded object has a value of the right type
RightlyTyped(data) ==
    /\ \A d \in DimSet : DimensionSupplied(data.dims[d])
    /\ \A a \in BoolAttrs : data.attrs[a].t = "bool"
    /\ \A a \in EnumAttrs : data.attrs[a].t = "str" /\ data.attrs[a].s \in ValidValues(a)
    /\ data.dominant_colors.t = "list"
    /\ \A i \in DOMAIN data.dominant_colors.items :
          /\ data.dominant_colors.items[i].t = "obj"
          /\ data.dominant_colors.items[i].coverage_percentage.t = "num"

\* C18: out-of-range numbers in a decodable response are clamped, not rejected: the
\* parse returns an analysis in which a score outside [-5,5], a confidence outside
\* [0,1] and a coverage_percentage outside [0,100] are each replaced by the nearest bound.
C18_OutOfRangeClamped ==
    \A k \in DOMAIN ret :
        (arg.kind = "json" /\ RightlyTyped(arg.data)) =>
            /\ ret[k] # None
            /\ \A d \in DimSet :
                  ret[k][1].visual_dimensions[d]
                     = [score |-> Clamped(arg.data.dims[d].score.v, -50, 50),
                        confidence |-> Clamped(arg.data.dims[d].confidence.v, 0, 100)]
            /\ \A i \in 1..Min(3, Len(arg.data.dominant_colors.items)) :
                  ret[k][1].dominant_colors[i].coverage_percentage
                     = Clamped(arg.data.dominant_colors.items[i].coverage_percentage.v, 0, 100)

\* a call of process_product is in flight
InFlight == pc \notin {"idle", "done"}

\* C19: when no external call stays pending for ever, every process_product call that
\* was started returns a measurement, and a vision call that hangs is cut off by the
\* timeout, after which the product ends as a failed measurement with a typed error.
C19_EveryCallReturns ==
    /\ InFlight ~> (HasReturned /\ measurement # None)
    /\ (pc = "vision_hung") ~> (Failed /\ measurement[1].error_type # None /\ measurement[1].error_type[1] \in ErrorTypes)

\* a hung vision call was cut off and the product came back failed
C19_Witness ==
    /\ HasReturned
    /\ env.vision_error = Some(TimeoutMessage)
    /\ Failed
    /\ measurement[1].error_type = Some("vision_model_error")

\* no fetch returned image bytes
NoImageBytes ==
    /\ env.fetch_outcomes # <<>>
    /\ \A k \in DOMAIN env.fetch_outcomes : env.fetch_outcomes[k] = "none"

\* C20: once a stage has failed, no external call of a later stage is made for the
\* product: no fetch and no vision call when no URL is valid, no vision call when a
\* fetch raised or no fetch returned bytes, and when the vision call for image k raised
\* the call has ended with vision calls made for the first k images only and the
\* timings of the k - 1 images before it in the failed measurement.
C20_NoLaterStageCalls ==
    /\ env.validated = Some(<<>>) => (env.fetched = <<>> /\ env.vision_images = <<>>)
    /\ (LoadError(env.fetch_outcomes) \/ NoImageBytes) => env.vision_images = <<>>
    /\ env.vision_error # None =>
          LET k == Len(loc.results) + 1
          IN  /\ Failed
              /\ env.vision_images = Prefix(loc.valid_images, k)
              /\ Len(loc.timings) = k - 1
              /\ measurement[1].per_image_time_ms = loc.timings

\* the vision call for the second of three images raised
C20_Witness ==
    /\ HasReturned
    /\ env.vision_error # None
    /\ Len(loc.valid_images) = 3
    /\ Len(env.vision_images) = 2
    /\ Len(measurement[1].per_image_time_ms) = 1

\* the number of vision calls issued so far for the product in flight
VisionCalls == Len(env.vision_started)

\* C21: the vision calls of one product are issued one at a time in the order of the
\* fetched images: call j is for the j-th fetched image, it starts only after call j - 1
\* returned and at least the inter-call delay later, and the first call starts with no
\* sleep, at the moment the analysis loop is entered.
C21_SequentialVisionCalls ==
    /\ Len(env.vision_images) = VisionCalls
    /\ env.vision_images = Prefix(loc.valid_images, VisionCalls)
    /\ VisionCalls <= Len(loc.results) + 1
    /\ VisionCalls >= 1 => env.vision_started[1] = loc.gemini_start
    /\ \A j \in 2..VisionCalls :
          Ms(env.vision_started[j])
             >= Ms(env.vision_started[j - 1]) + loc.timings[j - 1] + Ms(API_CALL_DELAY_SECONDS)

\* three calls were issued and each of them took time
C21_Witness ==
    /\ VisionCalls = 3
    /\ Len(loc.timings) >= 2
    /\ loc.timings[1] > 0
    /\ env.vision_started[3] > env.vision_started[2]

\* the error type the loop of _analyze_images_with_tracking gives to exception e
VisionErrorType(e) == IF VisionErrorIsRateLimit(e) THEN "rate_limited" ELSE "vision_model_error"

\* an error message in the shape of a rate limit: it names 429, a quota or a rate
RateLimitShaped(e) ==
    \E k \in DOMAIN e : LowerPiece(e[k]) \in { "429", "quota", "rate" }

SquaredDistance(p, q) ==
    (p[1] - q[1]) * (p[1] - q[1]) + (p[2] - q[2]) * (p[2] - q[2]) + (p[3] - q[3]) * (p[3] - q[3])

\* colour c matches a cluster whose first member is f: same name ignoring case, or
\* both hex values parse and lie at distance strictly less than 50
MatchesCluster(c, f) ==
    \/ LowerName(c.color) = LowerName(f.color)
    \/ /\ hex_to_rgb(c.hex_approximation) # None
       /\ hex_to_rgb(f.hex_approximation) # None
       /\ SquaredDistance(hex_to_rgb(c.hex_approximation)[1], hex_to_rgb(f.hex_approximation)[1]) < 2500

\* the cluster of groups that holds position i
ClusterOf(groups, i) == CHOOSE g \in DOMAIN groups : \E j \in DOMAIN groups[g] : groups[g][j] = i

\* groups is the clustering of colors by first match: every position is in exactly one
\* cluster, clusters are in the order of their first members, and each colour sits in
\* the earliest-created cluster whose first member it matches, or opens a new cluster
\* when it matches none
FirstMatchClustering(colors, groups) ==
    /\ \A i \in DOMAIN colors :
          Cardinality({ <<g, j>> \in (DOMAIN groups) \X (1..Len(colors)) :
                           j \in DOMAIN groups[g] /\ groups[g][j] = i }) = 1
    /\ \A g \in DOMAIN groups :
          /\ groups[g] # <<>>
          /\ \A j \in 2..Len(groups[g]) : groups[g][j - 1] < groups[g][j]
          /\ g > 1 => groups[g - 1][1] < groups[g][1]
    /\ \A i \in DOMAIN colors :
          LET matching == { g \in DOMAIN groups :
                               groups[g][1] < i /\ MatchesCluster(colors[i], colors[groups[g][1]]) }
          IN  IF matching = {}
              THEN groups[ClusterOf(groups, i)][1] = i
              ELSE \A g \in matching : ClusterOf(groups, i) <= g

\* every cluster is merged into one entry whose coverage is the sum of its members'
\* coverages, capped at 100
MergedCoverage(colors, outcome) ==
    /\ Len(outcome.merged) = Len(outcome.groups)
    /\ \A g \in DOMAIN outcome.groups :
          outcome.merged[g].coverage_percentage
             = Min(100, SumSeq([j \in DOMAIN outcome.groups[g] |->
                                   colors[outcome.groups[g][j]].coverage_percentage]))

\* two positions whose colours have the same name ignoring case
SameName(colors, i, j) == i < j /\ LowerName(colors[i].color) = LowerName(colors[j].color)

AtLeast(colors, v) == Cardinality({ k \in DOMAIN colors : colors[k].coverage_percentage >= v })

\* C24: the colour list returned by the merge has at most 3 entries, in non-increasing
\* order of coverage_percentage, each with coverage at most 100, and they are the
\* merged clusters of highest coverage: when more than 3 clusters exist, the 3 highest.
C24_TopThreeSorted ==
    \A k \in DOMAIN ret :
        ~ret[k].raised =>
            LET colors == ret[k].colors
                merged == ret[k].merged
            IN  /\ Len(colors) = Min(3, Len(merged))
                /\ \A i \in 2..Len(colors) :
                      colors[i - 1].coverage_percentage >= colors[i].coverage_percentage
                /\ \A i \in DOMAIN colors :
                      /\ colors[i].coverage_percentage <= 100
                      /\ \E g \in DOMAIN merged : merged[g] = colors[i]
                /\ \A g \in DOMAIN merged :
                      AtLeast(colors, merged[g].coverage_percentage)
                         = Min(3, AtLeast(merged, merged[g].coverage_percentage))

\* four clusters were formed; the one of lowest coverage came first in the list and
\* was dropped
C24_Witness ==
    /\ ret # <<>>
    /\ ~ret[1].raised
    /\ Len(ret[1].merged) = 4
    /\ Len(ret[1].colors) = 3
    /\ arg[1].color = "charcoal"
    /\ \A i \in DOMAIN ret[1].colors : ret[1].colors[i].color # "charcoal"

\* some colour handed to the aggregator has a hex_approximation that is no #RRGGBB
SomeHexUnparsable(results) ==
    \E k \in DOMAIN results : \E c \in DOMAIN results[k].dominant_colors :
        hex_to_rgb(results[k].dominant_colors[c].hex_approximation) = None

\* C25: a colour whose hex_approximation cannot be parsed never aborts the colour merge
\* or the aggregation: Aggregator.aggregate on a list holding such a colour still
\* returns a successful measurement.
C25_UnparsableHexTolerated ==
    \A k \in DOMAIN ret :
        SomeHexUnparsable(arg) =>
            /\ ReturnedAt(k)
            /\ ret[k].m[1].processing_status = "success"

\* C26: when the JSON of a response does not decode but at least one dimension block
\* has the shape "name": {"score": X, "confidence": Y}, parse_vision_response returns an
\* analysis: a matched dimension has its recovered values (brought into the declared
\* ranges), an unmatched one is {0.0, 0.5}, every other field has its default; no
\* result is returned only when no dimension block matches.
C26_PartialRecovery ==
    \A k \in DOMAIN ret :
        (arg.kind = "broken" /\ \E d \in DimSet : DimBlockMatches(arg.data.dims[d])) =>
            /\ ret[k] # None
            /\ \A d \in DimSet :
                  LET j == arg.data.dims[d]
                  IN  ret[k][1].visual_dimensions[d]
                         = IF DimBlockMatches(j)
                           THEN [score |-> Clamped(j.score.v, -50, 50),
                                 confidence |-> Clamped(j.confidence.v, 0, 100)]
                           ELSE [score |-> 0, confidence |-> 50]
            /\ \A a \in BoolAttrs : ParsedValue(ret[k][1], a) = FALSE
            /\ \A a \in EnumAttrs : ParsedValue(ret[k][1], a) = DocumentedDefault(a)
            /\ ret[k][1].dominant_colors = DefaultColors

\* the square of the population standard deviation of scores: the sum of the squared
\* deviations from the mean divided by the number of scores, in squared tenths
PopulationVariance(scores) ==
    LET n == Len(scores)
        total == SumSeq(scores)
        squares == SumSeq([k \in 1..n |-> scores[k] * scores[k]])
    IN  Frac(n * squares - total * total, n * n)

\* C27: the variance metric of each dimension is the population standard deviation of
\* the dimension's scores over the surviving images when at least 2 survive, and 0 for
\* all five dimensions when fewer than 2 survive (compared on the squares).
C27_PopulationStdev ==
    \A k \in DOMAIN ret : \A d \in DimSet :
        ret[k][d] = IF Len(arg) < 2 THEN Frac(0, 1)
                    ELSE PopulationVariance([i \in 1..Len(arg) |-> arg[i].visual_dimensions[d].score])

\* C28: two process_product calls in flight at once on one instance can read the same
\* cursor and start their pipelines less than API_CALL_DELAY_SECONDS apart; two starts
\* are that close only then: a call that no other call overlapped between its entry and
\* its pipeline start starts at least the delay after the start recorded before it.
C28_SpacingOnlyWhenAlone ==
    \A k \in 2..Len(ret) :
        ret[k].alone => ret[k].at - ret[k - 1].at >= API_CALL_DELAY_SECONDS

\* two calls were asleep at the same time on the same reading of the cursor, a previous
\* pipeline start, and started their pipelines less than the delay apart
C28_Witness ==
    \E k \in 2..Len(ret) :
        /\ ret[k].cursor = ret[k - 1].cursor
        /\ ret[k].cursor > 0
        /\ ret[k].task # ret[k - 1].task
        /\ ~ret[k].alone
        /\ ret[k].at - ret[k - 1].at < API_CALL_DELAY_SECONDS

\* C29: every entry of per_image_analysis on a successful measurement carries the URL
\* the entry's image was fetched from, also when an earlier capped URL returned no
\* bytes and its image was left out of the images sent to the vision model.
C29_EntryCarriesFetchedUrl ==
    Succeeded =>
        LET kept == ParseAndFilter(loc.results, 0)
            entries == measurement[1].per_image_analysis
        IN  /\ Len(entries) = Len(kept)
            /\ \A k \in DOMAIN entries :
                   entries[k].image_url = Some(env.vision_images[kept[k].i + 1])

\* C30: with MIN_CONFIDENCE_THRESHOLD at least 0.5, every successful measurement has
\* aggregate_confidence >= 0.5 and quality_flags.low_confidence = false.
C30_SuccessIsConfident ==
    \A k \in DOMAIN ret :
        ret[k].processing_status = "success" =>
            /\ ~FloatLess(ret[k].aggregate_confidence, Double(50))
            /\ ret[k].low_confidence = FALSE
====
